---- MODULE Spec2Model ----
(***************************************************************************)
(* Model of the SIM800L GPRS driver (package sim800l): the byte framer     *)
(* (readLine), the command dispatcher (sendRaw / readResponse / send) and  *)
(* the connection manager (Connect, Disconnect, Dial, CloseConnection,     *)
(* connectionSend) of src/gprs.go.                                         *)
(*                                                                         *)
(* Bytes are one-character strings; byte slices are sequences of them.     *)
(* The device is the environment: every uart.Write is answered by a reply  *)
(* (a byte string appended to the UART receive queue rx), drawn from a     *)
(* small set.  A readLine that exhausts rx before completing a unit runs   *)
(* into its deadline and returns ErrTimeout.                               *)
(***************************************************************************)
EXTENDS Integers, Sequences, FiniteSets, TLC

VARIABLES
    connections,     \* Device.connections: slot -> Connection record or NoConn
    IP,              \* Device.IP, a byte string (<<>> is "")
    buffer,          \* Device.buffer: contents of the scratch array, up to the highest index written
    end,             \* Device.end
    rx,              \* bytes pending in the UART receive queue (uart.Buffered() = Len(rx))
    recvBuffers,     \* Device.recvBuffers: per slot, the bytes buffered (up to recvBufLengths)
    recvBufLengths,  \* Device.recvBufLengths
    last,            \* the operation that ran last: its name, arguments, result and uart writes
    lexer,           \* a Lexer: its buffer and the tokens of its last call
    handles,         \* the *Connection values the caller still holds after Close()
    wait             \* the wait in progress: the loop it is in, its caller, the time left

vars ==
    <<connections, IP, buffer, end, rx, recvBuffers, recvBufLengths, last, lexer, handles, wait>>

----------------------------------------------------------------------------
(* Program constants *)

MaxBufferSize == 256
MaxCommandSize == MaxBufferSize - 2 - 2
MaxConnections == 5
RecvBufSize == 1024
maxChunk == 1024

Slots == 0 .. (MaxConnections - 1)

NUL == "0x00"   \* the zero byte of a fresh array
CR == "\r"
LF == "\n"
at == <<"A", "T">>
crlf == <<CR, LF>>
okToken == <<"O", "K">>
errorToken == <<"E", "R", "R", "O", "R">>

----------------------------------------------------------------------------
(* Byte-slice helpers: bytes.Contains, bytes.HasPrefix, copy, append *)

Min(a, b) == IF a < b THEN a ELSE b
Max(a, b) == IF a > b THEN a ELSE b

\* Go evaluates an expression once and names its value.  Let(v, LAMBDA x : e)
\* is e with x naming the value of v; CallN(F, a, ...) applies F to the values
\* of its arguments.
Only(S) == CHOOSE x \in S : TRUE
Let(v, F(_)) == Only({F(x) : x \in {v}})
Call3(F(_, _, _), a, b, c) == Only({F(x, y, z) : x \in {a}, y \in {b}, z \in {c}})
Call4(F(_, _, _, _), a, b, c, d) ==
    Only({F(w, x, y, z) : w \in {a}, x \in {b}, y \in {c}, z \in {d}})

Contains(s, pat) ==
    \E i \in 0 .. (Len(s) - Len(pat)) : SubSeq(s, i + 1, i + Len(pat)) = pat

HasPrefix(s, pat) ==
    Len(s) >= Len(pat) /\ SubSeq(s, 1, Len(pat)) = pat

\* copy(arr[pos:], src) on an array of capacity cap whose written prefix is arr:
\* the number of bytes copied
CopyLen(cap, pos, src) == Min(cap - pos, Len(src))

\* ... and the array afterwards (pos never lies beyond the written prefix)
CopyInto(arr, cap, pos, src) ==
    LET n == CopyLen(cap, pos, src)
    IN  SubSeq(arr, 1, pos) \o SubSeq(src, 1, n) \o SubSeq(arr, pos + n + 1, Len(arr))

LowerCase == <<"a", "b", "c", "d", "e", "f", "g", "h", "i", "j", "k", "l", "m",
               "n", "o", "p", "q", "r", "s", "t", "u", "v", "w", "x", "y", "z">>
UpperCase == <<"A", "B", "C", "D", "E", "F", "G", "H", "I", "J", "K", "L", "M",
               "N", "O", "P", "Q", "R", "S", "T", "U", "V", "W", "X", "Y", "Z">>

IsLower(b) == b \in {LowerCase[k] : k \in 1 .. 26}

\* b - 32 for b in 'a' .. 'z'
ToUpperByte(b) ==
    IF IsLower(b) THEN UpperCase[CHOOSE k \in 1 .. 26 : LowerCase[k] = b] ELSE b

toUpperNoCopy(b) == [i \in 1 .. Len(b) |-> ToUpperByte(b[i])]

IsSpace(b) == b \in {" ", "\t", LF, CR, "\f"}

RECURSIVE TrimLeft(_)
TrimLeft(s) == IF s # <<>> /\ IsSpace(Head(s)) THEN TrimLeft(Tail(s)) ELSE s

RECURSIVE TrimRight(_)
TrimRight(s) ==
    IF s # <<>> /\ IsSpace(s[Len(s)]) THEN TrimRight(SubSeq(s, 1, Len(s) - 1)) ELSE s

TrimSpace(s) == TrimRight(TrimLeft(s))

Digits == <<"0", "1", "2", "3", "4", "5", "6", "7", "8", "9">>

\* strconv.AppendInt(nil, n, 10) for n >= 0
RECURSIVE Itoa(_)
Itoa(n) == IF n < 10 THEN <<Digits[n + 1]>> ELSE Itoa(n \div 10) \o <<Digits[(n % 10) + 1]>>

----------------------------------------------------------------------------
(* Errors: kind is the sentinel or message at the root of the chain, wrap   *)
(* the fmt.Errorf("...: %w") prefixes around it (outermost first), text the *)
(* byte string the error carries (ATError.Command, the %s of a message).    *)

Error(kind, text) == [kind |-> kind, wrap |-> <<>>, text |-> text]
NoError == Error("nil", <<>>)
ErrTimeout == Error("ErrTimeout", <<>>)
ErrUnexpectedResponse == Error("ErrUnexpectedResponse", <<>>)
ErrNoIP == Error("ErrNoIP", <<>>)
ErrMaxConn == Error("ErrMaxConn", <<>>)
ErrWouldBlock == Error("ErrWouldBlock", <<>>)
ErrCannotSend == Error("ErrCannotSend", <<>>)
ErrCannotConnect == Error("ErrCannotConnect", <<>>)
ATError(cmd) == Error("ATError", cmd)
Wrap(msg, e) == [e EXCEPT !.wrap = <<msg>> \o @]
IsNil(e) == e.kind = "nil"

----------------------------------------------------------------------------
(* Byte framer: Device.append and Device.readLine *)

TokenInvalid == "TokenInvalid"
TokenLine == "TokenLine"
TokenPrompt == "TokenPrompt"

\* d.append over a run of bytes: buffer[end] = b, end++ for each, while end < len(d.buffer)
AppendBytes(buf, e, run) == CopyInto(buf, MaxBufferSize, e, run)

\* The empty-line test of the stateEndLine branch
IsEmptyLine(e) == e <= 2

OnlyCR(b) == b = CR

\* The bytes stateStart treats specially
IsFramingByte(b) == b = CR \/ b = ">"

\* The number of bytes at the head of q that stateStart appends
RunLength(q) ==
    IF \E i \in 1 .. Len(q) : IsFramingByte(q[i])
    THEN (CHOOSE i \in 1 .. Len(q) :
            IsFramingByte(q[i]) /\ \A j \in 1 .. (i - 1) : ~IsFramingByte(q[j])) - 1
    ELSE Len(q)

Unit(tok, err, buf, e, q) == [tok |-> tok, err |-> err, buffer |-> buf, end |-> e, rx |-> q]

\* The loop of readLine from scanner state st ("start" / "endline"), with the
\* scratch buffer buf, index e and pending bytes q.  A run of bytes that
\* stateStart appends one by one is taken in one step.  The result is the token,
\* the error, and the buffer, index and pending bytes on return; with nothing
\* pending the deadline passes.
RECURSIVE ReadLoop(_, _, _, _)
ReadLoop(st, buf, e, q) ==
    IF q = <<>> THEN Unit(TokenInvalid, ErrTimeout, buf, e, q)
    ELSE IF st = "start"
    THEN Let(RunLength(q), LAMBDA k :
         Let(MaxBufferSize - e, LAMBDA room :
             IF k > room
             \* the byte that finds the buffer full has been read
             THEN Unit(TokenInvalid, Error("buffer overflow", <<>>),
                       AppendBytes(buf, e, SubSeq(q, 1, room)), MaxBufferSize,
                       SubSeq(q, room + 2, Len(q)))
             ELSE IF k > 0
             THEN Call4(ReadLoop, "start", AppendBytes(buf, e, SubSeq(q, 1, k)), e + k,
                        SubSeq(q, k + 1, Len(q)))
             ELSE IF Head(q) = CR THEN Call4(ReadLoop, "endline", buf, e, Tail(q))
             ELSE Unit(TokenPrompt, NoError, buf, e, Tail(q))))
    ELSE IF Head(q) = LF
         THEN IF IsEmptyLine(e)
              THEN Call4(ReadLoop, "start", buf, e, Tail(q))
              ELSE Unit(TokenLine, NoError, buf, e, Tail(q))
         ELSE Call4(ReadLoop, "start", AppendBytes(buf, 0, <<Head(q)>>), 1, Tail(q))

\* d.readLine(t): d.end = 0, then the loop
readLine(buf, q) == ReadLoop("start", buf, 0, q)

----------------------------------------------------------------------------
(* Command dispatcher: clearBuffer, sendRaw, readResponse, sendWithOptions, send *)

\* The operators below pass the device along as a record d of the Device
\* fields (connections, IP, buffer, end, recvBuffers, recvBufLengths), the
\* pending receive bytes rx, and tx, the uart writes made so far in the running
\* operation (each tagged with the step that wrote it).  Dev(d, b, e, q, t) is
\* d with new scratch buffer, index, pending bytes and writes.
Dev(d, b, e, q, t) == [d EXCEPT !.buffer = b, !.end = e, !.rx = q, !.tx = t]

\* What the device does on one uart.Write: werr = the write returns an error
\* (nothing is answered); otherwise bytes is what the device sends afterwards.
Reply(bytes) == [werr |-> FALSE, bytes |-> bytes]
WriteFails == [werr |-> TRUE, bytes |-> <<>>]

\* clearBuffer: reads everything pending into d.buffer[:min(len, Buffered())];
\* the array afterwards (the last read's bytes stay at its start)
RECURSIVE clearBuffer(_, _)
clearBuffer(buf, q) ==
    IF q = <<>> THEN buf
    ELSE Let(Min(MaxBufferSize, Len(q)), LAMBDA n :
         Let(CopyInto(buf, MaxBufferSize, 0, SubSeq(q, 1, n)), LAMBDA b :
         Let(SubSeq(q, n + 1, Len(q)), LAMBDA rest : clearBuffer(b, rest))))

\* A command is either a byte string of its own (view = FALSE: one of the cmd*
\* variables) or a slice of the scratch buffer, d.buffer[:n] (view = TRUE,
\* built by append(d.buffer[:0], ...)); Cmd(d, c) is the bytes it denotes now.
OwnCmd(bytes) == [view |-> FALSE, bytes |-> bytes, n |-> Len(bytes)]
ViewCmd(n) == [view |-> TRUE, bytes |-> <<>>, n |-> n]
CmdBytes(buf, c) == IF c.view THEN SubSeq(buf, 1, c.n) ELSE c.bytes

TooLongNever(c) == FALSE

\* The length check at the head of sendRaw
TooLong(c) == c.n > MaxCommandSize

\* sendRaw(cmd), the device answering the write with reply; step tags the write.
\* The result is the device state afterwards and the error returned.
sendRaw(d, c, step, reply) ==
    IF TooLong(c)
    THEN [d |-> d, err |-> Error("command too long", <<>>)]
    ELSE Let(clearBuffer(d.buffer, d.rx), LAMBDA b1 :
         \* toUpperNoCopy works in place: on the scratch buffer for a view
         Let(IF c.view
             THEN CopyInto(b1, MaxBufferSize, 0, toUpperNoCopy(SubSeq(b1, 1, c.n)))
             ELSE b1, LAMBDA b2 :
         Let(IF c.view THEN c ELSE OwnCmd(toUpperNoCopy(c.bytes)), LAMBDA c2 :
         Let(~HasPrefix(CmdBytes(b2, c2), at), LAMBDA pre :
         Let(IF pre THEN CopyInto(b2, MaxBufferSize, 0, at) ELSE b2, LAMBDA b3 :
         Let(IF pre THEN CopyLen(MaxBufferSize, 0, at) ELSE 0, LAMBDA e3 :
         Let(CmdBytes(b3, c2), LAMBDA src :
         Let(CopyInto(b3, MaxBufferSize, e3, src), LAMBDA b4 :
         Let(e3 + CopyLen(MaxBufferSize, e3, src), LAMBDA e4 :
         Let(CopyInto(b4, MaxBufferSize, e4, crlf), LAMBDA b5 :
         Let(e4 + CopyLen(MaxBufferSize, e4, crlf), LAMBDA e5 :
             IF reply.werr
             THEN [d |-> Dev(d, b5, e5, <<>>, d.tx), err |-> ATError(CmdBytes(b5, c2))]
             ELSE [d |-> Dev(d, b5, e5, reply.bytes,
                             Append(d.tx, [step |-> step, bytes |-> SubSeq(b5, 1, e5)])),
                   err |-> NoError])))))))))))

\* defaultResponseCheck(buffer)
defaultResponseCheck(line) ==
    IF Contains(line, okToken) THEN NoError
    ELSE IF Contains(line, errorToken) THEN ATError(line)
    ELSE Error("unexpected response", line)

\* The check function Connect passes with +CIFSR (gprs.go:91-100)
ipResponseCheck(line) ==
    IF line[Len(line)] # LF THEN Error("invalid response format", <<>>)
    ELSE IF ~Contains(line, <<".">>) THEN Error("no valid IP address found", <<>>)
    ELSE NoError

\* The check function Dial passes to readResponse (gprs.go:205-217)
connectResponseCheck(line) ==
    IF Contains(line, <<"C", "O", "N", "N", "E", "C", "T", " ", "O", "K">>) THEN NoError
    ELSE IF Contains(line, <<"C", "O", "N", "N", "E", "C", "T", " ", "F", "A", "I", "L">>)
    THEN ErrCannotConnect
    ELSE IF Contains(line, <<"A", "L", "R", "E", "A", "D", "Y", " ", "C", "O", "N", "N", "E", "C", "T">>)
    THEN NoError
    ELSE ErrUnexpectedResponse

\* The check function connectionSend passes to readResponse (gprs.go:333-342)
sendResponseCheck(line) ==
    IF Contains(line, <<"S", "E", "N", "D", " ", "O", "K">>) THEN NoError
    ELSE IF Contains(line, <<"S", "E", "N", "D", " ", "F", "A", "I", "L">>) THEN ErrCannotSend
    ELSE ErrUnexpectedResponse

\* checkFunc(d.buffer[:d.end]) for the check function named by check
ApplyCheck(check, line) ==
    CASE check = "default" -> defaultResponseCheck(line)
      [] check = "ip"      -> ipResponseCheck(line)
      [] check = "connect" -> connectResponseCheck(line)
      [] check = "send"    -> sendResponseCheck(line)

\* readResponse(cmd, checkFunc, timeout)
readResponse(d, c, check) ==
    Let(readLine(d.buffer, d.rx), LAMBDA r :
    Let(Dev(d, r.buffer, r.end, r.rx, d.tx), LAMBDA d2 :
        IF ~IsNil(r.err) THEN [d |-> d2, err |-> r.err]
        ELSE IF r.tok # TokenLine THEN [d |-> d2, err |-> ATError(CmdBytes(r.buffer, c))]
        ELSE [d |-> d2, err |-> ApplyCheck(check, SubSeq(r.buffer, 1, r.end))]))

\* sendWithOptions(cmd, checkFunc, timeout)
sendWithOptions(d, c, check, step, reply) ==
    Let(sendRaw(d, c, step, reply), LAMBDA s :
        IF ~IsNil(s.err) THEN s ELSE readResponse(s.d, c, check))

\* send(cmd)
send(d, c, step, reply) == sendWithOptions(d, c, "default", step, reply)

----------------------------------------------------------------------------
(* Connection manager *)

TCP == "TCP"
UDP == "UDP"
StateConnecting == "StateConnecting"
StateConnected == "StateConnected"
StateClosing == "StateClosing"

\* d.connections[i] == nil
NoConn == [nil |-> TRUE]

\* &Connection{ID, Type, state, RemoteIP, RemotePort, Device: d}
Connection(id, type, state, host, port) ==
    [ID |-> id, Type |-> type, state |-> state, RemoteIP |-> host, RemotePort |-> port]

cmdGprsAttachQuery == <<"+", "C", "G", "A", "T", "T", "?">>
cmdGprsAttach == <<"+", "C", "G", "A", "T", "T", "=", "1">>
cmdGprsDetach == <<"+", "C", "G", "A", "T", "T", "=", "0">>
cmdMultiConn == <<"+", "C", "I", "P", "M", "U", "X", "=", "1">>
cmdStartWireless == <<"+", "C", "I", "I", "C", "R">>
cmdGetIp == <<"+", "C", "I", "F", "S", "R">>
cmdShutPdp == <<"+", "C", "I", "P", "S", "H", "U", "T">>
cmdClipStart == <<"+", "C", "I", "P", "S", "T", "A", "R", "T">>
cmdClipClose == <<"+", "C", "I", "P", "C", "L", "O", "S", "E">>
cmdClipSend == <<"+", "C", "I", "P", "S", "E", "N", "D">>
cmdCstt == <<"+", "C", "S", "T", "T">>

\* cmd := append(d.buffer[:0], bytes...): the device with bytes at the start of
\* the scratch buffer; the command is then ViewCmd(Len(bytes))
BuildCmd(d, bytes) == [d EXCEPT !.buffer = CopyInto(d.buffer, MaxBufferSize, 0, bytes)]

\* A close that leaves the record in its slot, in the state Closing
FreeSlotKeepClosing(conns, cid) == [conns EXCEPT ![cid] = [@ EXCEPT !.state = StateClosing]]

\* The connection table after CloseConnection's send (gprs.go:242)
FreeSlot(conns, cid) == [conns EXCEPT ![cid] = NoConn]

\* A CloseConnection that frees the slot only once the device has accepted the close
CloseConnectionOnSuccess(d, cid, reply) ==
    IF cid >= MaxConnections \/ d.connections[cid] = NoConn
    THEN [d |-> d, err |-> Error("invalid connection ID", Itoa(cid))]
    ELSE Let(cmdClipClose \o Itoa(cid), LAMBDA bytes :
         Let(BuildCmd(d, bytes), LAMBDA d1 :
         Let(send(d1, ViewCmd(Len(bytes)), "close", reply), LAMBDA s :
             IF ~IsNil(s.err)
             THEN [d |-> s.d, err |-> Wrap("failed to close connection", s.err)]
             ELSE [d |-> [s.d EXCEPT !.connections = FreeSlot(d.connections, cid)],
                   err |-> NoError])))

\* CloseConnection(cid), the device answering the close command with reply
CloseConnection(d, cid, reply) ==
    IF cid >= MaxConnections \/ d.connections[cid] = NoConn
    THEN [d |-> d, err |-> Error("invalid connection ID", Itoa(cid))]
    ELSE Let(cmdClipClose \o Itoa(cid), LAMBDA bytes :
         Let(BuildCmd(d, bytes), LAMBDA d1 :
         Let(send(d1, ViewCmd(Len(bytes)), "close", reply), LAMBDA s :
         Let([s.d EXCEPT !.connections = FreeSlot(d.connections, cid)], LAMBDA d2 :
             IF ~IsNil(s.err)
             THEN [d |-> d2, err |-> Wrap("failed to close connection", s.err)]
             ELSE [d |-> d2, err |-> NoError]))))

\* bytes.Index(s, pat): the 0-based index of the first occurrence, or -1
Index(s, pat) ==
    IF Contains(s, pat)
    THEN CHOOSE i \in 0 .. (Len(s) - Len(pat)) :
            /\ SubSeq(s, i + 1, i + Len(pat)) = pat
            /\ \A j \in 0 .. (i - 1) : SubSeq(s, j + 1, j + Len(pat)) # pat
    ELSE -1

\* strings.LastIndexByte(s, b), 0-based, or -1
LastIndexByte(s, b) ==
    IF \E i \in 1 .. Len(s) : s[i] = b
    THEN (CHOOSE i \in 1 .. Len(s) : s[i] = b /\ \A j \in (i + 1) .. Len(s) : s[j] # b) - 1
    ELSE -1

\* net.SplitHostPort(address) for addresses without brackets
SplitHostPort(address) ==
    LET i == LastIndexByte(address, ":")
        host == SubSeq(address, 1, i)
        port == SubSeq(address, i + 2, Len(address))
    IN  IF i < 0 THEN [ok |-> FALSE, host |-> <<>>, port |-> <<>>]       \* missing port
        ELSE IF \E k \in 1 .. Len(host) : host[k] = ":"
        THEN [ok |-> FALSE, host |-> <<>>, port |-> <<>>]                 \* too many colons
        ELSE [ok |-> TRUE, host |-> host, port |-> port]

\* The switch on strings.ToLower(network) in Dial: the connection type, or
\* "unsupported"
ParseNetwork(network) ==
    CASE network \in {"tcp", "TCP", "Tcp"} -> TCP
      [] network \in {"udp", "UDP", "Udp"} -> UDP
      [] OTHER -> "unsupported"

\* A slot search that takes the number of live connections as the next id
FindFreeSlotByCount(conns) ==
    LET live == Cardinality({i \in Slots : conns[i] # NoConn})
    IN  IF live = MaxConnections THEN -1 ELSE live

\* The slot search of Dial: the lowest i with d.connections[i] == nil, or -1
FindFreeSlot(conns) ==
    IF \E i \in Slots : conns[i] = NoConn
    THEN CHOOSE i \in Slots : conns[i] = NoConn /\ \A j \in Slots : j < i => conns[j] # NoConn
    ELSE -1

\* A store that leaves the record in the state it was created in
StoreConnAsCreated(conns, cid, conn) == [conns EXCEPT ![cid] = conn]

\* The connection table after a successful Dial (gprs.go:222-223)
StoreConn(conns, cid, conn) == [conns EXCEPT ![cid] = [conn EXCEPT !.state = StateConnected]]

\* networkType in Dial (gprs.go:192-195)
NetworkType(connType) == IF connType = UDP THEN <<"U", "D", "P">> ELSE <<"T", "C", "P">>

\* A Dial that stores the connection in its slot before it starts the connection,
\* and leaves it there when the connection fails
DialStoreFirst(d, network, address, reply) ==
    LET fail(e) == [d |-> d, cid |-> -1, err |-> e]
        q == <<"\"">>
    IN  Let(FindFreeSlot(d.connections), LAMBDA cid :
        Let(ParseNetwork(network), LAMBDA connType :
        Let(SplitHostPort(address), LAMBDA hp :
        IF d.IP = <<>> THEN fail(ErrNoIP)
        ELSE IF cid = -1 THEN fail(ErrMaxConn)
        ELSE IF connType = "unsupported" THEN fail(Error("unsupported network type", <<>>))
        ELSE IF ~hp.ok THEN fail(Wrap("invalid address format", Error("SplitHostPort", <<>>)))
        ELSE Let(Connection(cid, connType, StateConnecting, hp.host, hp.port), LAMBDA conn :
             Let(cmdClipStart \o <<"=">> \o Itoa(cid) \o <<",">>
                 \o q \o NetworkType(connType) \o q \o <<",">>
                 \o q \o hp.host \o q \o <<",">> \o q \o hp.port \o q, LAMBDA bytes :
             Let(BuildCmd([d EXCEPT !.connections = [@ EXCEPT ![cid] = conn]], bytes), LAMBDA d1 :
             Let(send(d1, ViewCmd(Len(bytes)), "open", reply), LAMBDA s :
             IF ~IsNil(s.err)
             THEN [d |-> s.d, cid |-> -1, err |-> Wrap("failed to start connection", s.err)]
             ELSE Let(readResponse(s.d, OwnCmd(cmdClipStart), "connect"), LAMBDA r :
                  IF ~IsNil(r.err)
                  THEN [d |-> r.d, cid |-> -1, err |-> Wrap("connection failed", r.err)]
                  ELSE [d |-> [r.d EXCEPT !.connections = StoreConn(r.d.connections, cid, conn)],
                        cid |-> cid, err |-> NoError]))))))))

\* Dial(network, address), the device answering the +CIPSTART command with
\* reply.  cid is the id of the connection returned, -1 with an error.
Dial(d, network, address, reply) ==
    LET fail(e) == [d |-> d, cid |-> -1, err |-> e]
        q == <<"\"">>
    IN  Let(FindFreeSlot(d.connections), LAMBDA cid :
        Let(ParseNetwork(network), LAMBDA connType :
        Let(SplitHostPort(address), LAMBDA hp :
        IF d.IP = <<>> THEN fail(ErrNoIP)
        ELSE IF cid = -1 THEN fail(ErrMaxConn)
        ELSE IF connType = "unsupported" THEN fail(Error("unsupported network type", <<>>))
        ELSE IF ~hp.ok THEN fail(Wrap("invalid address format", Error("SplitHostPort", <<>>)))
        ELSE Let(Connection(cid, connType, StateConnecting, hp.host, hp.port), LAMBDA conn :
             Let(cmdClipStart \o <<"=">> \o Itoa(cid) \o <<",">>
                 \o q \o NetworkType(connType) \o q \o <<",">>
                 \o q \o hp.host \o q \o <<",">> \o q \o hp.port \o q, LAMBDA bytes :
             Let(BuildCmd(d, bytes), LAMBDA d1 :
             Let(send(d1, ViewCmd(Len(bytes)), "open", reply), LAMBDA s :
             IF ~IsNil(s.err)
             THEN [d |-> s.d, cid |-> -1, err |-> Wrap("failed to start connection", s.err)]
             ELSE Let(readResponse(s.d, OwnCmd(cmdClipStart), "connect"), LAMBDA r :
                  IF ~IsNil(r.err)
                  THEN [d |-> r.d, cid |-> -1, err |-> Wrap("connection failed", r.err)]
                  ELSE [d |-> [r.d EXCEPT !.connections = StoreConn(d.connections, cid, conn)],
                        cid |-> cid, err |-> NoError]))))))))

\* d.parseValue(k): the value after the key in the last response, or none
parseValue(d, k) ==
    Let(Index(SubSeq(d.buffer, 1, d.end), k), LAMBDA i :
    Let(i + Len(k) + 1, LAMBDA start :
        IF i < 0 THEN [ok |-> FALSE, v |-> <<>>]
        ELSE IF start >= d.end THEN [ok |-> FALSE, v |-> <<>>]
        ELSE Let(TrimSpace(SubSeq(d.buffer, start + 1, d.end)), LAMBDA v :
                 IF Len(v) = 0 THEN [ok |-> FALSE, v |-> <<>>]
                 ELSE [ok |-> TRUE, v |-> v])))

\* The attachment test of Connect (gprs.go:48-53)
Attached(d) ==
    Let(parseValue(d, cmdGprsAttach), LAMBDA p : p.ok /\ p.v = <<"1">>)

\* The +CSTT command Connect builds (gprs.go:72-77)
CsttCmd(apn, user, password) ==
    LET q == <<"\"">>
    IN  IF user # <<>> /\ password # <<>>
        THEN cmdCstt \o q \o apn \o q \o <<",">> \o q \o user \o q \o <<",">> \o q \o password \o q
        ELSE cmdCstt \o q \o apn \o q

\* The address Connect caches after a successful +CIFSR (gprs.go:106-110)
CachedIP(d) == TrimSpace(SubSeq(d.buffer, 1, d.end))

\* A Connect that goes on when the device refuses multi-connection mode
ConnectIgnoringMux(d, apn, user, password, script) ==
    Let(send(d, OwnCmd(cmdGprsAttachQuery), "query", script.query), LAMBDA s1 :
    IF ~IsNil(s1.err)
    THEN [d |-> s1.d, err |-> Wrap("failed to check GPRS attachment", s1.err)]
    ELSE
    Let(IF Attached(s1.d) THEN [d |-> s1.d, err |-> NoError]
        ELSE send(s1.d, OwnCmd(cmdGprsAttach), "attach", script.attach), LAMBDA s2 :
    IF ~IsNil(s2.err)
    THEN [d |-> s2.d, err |-> Wrap("failed to attach to GPRS", s2.err)]
    ELSE
    Let(send(s2.d, OwnCmd(cmdMultiConn), "mux", script.mux), LAMBDA s3 :
    Let(CsttCmd(apn, user, password), LAMBDA cstt :
    Let(BuildCmd(s3.d, cstt), LAMBDA d3 :
    Let(send(d3, ViewCmd(Len(cstt)), "cstt", script.cstt), LAMBDA s4 :
    IF ~IsNil(s4.err)
    THEN [d |-> s4.d, err |-> Wrap("failed to set APN", s4.err)]
    ELSE
    Let(send(s4.d, OwnCmd(cmdStartWireless), "ciicr", script.ciicr), LAMBDA s5 :
    IF ~IsNil(s5.err)
    THEN [d |-> s5.d, err |-> Wrap("failed to bring up wireless connection", s5.err)]
    ELSE
    Let(sendWithOptions(s5.d, OwnCmd(cmdGetIp), "ip", "cifsr", script.cifsr), LAMBDA s6 :
    IF ~IsNil(s6.err)
    THEN [d |-> s6.d, err |-> Wrap("failed to get IP address", s6.err)]
    ELSE [d |-> [s6.d EXCEPT !.IP = CachedIP(s6.d)], err |-> NoError]))))))))

\* Connect(apn, user, password).  script gives the device's answer to each
\* command by step name: query, attach, mux, cstt, ciicr, cifsr.
Connect(d, apn, user, password, script) ==
    Let(send(d, OwnCmd(cmdGprsAttachQuery), "query", script.query), LAMBDA s1 :
    IF ~IsNil(s1.err)
    THEN [d |-> s1.d, err |-> Wrap("failed to check GPRS attachment", s1.err)]
    ELSE
    Let(IF Attached(s1.d) THEN [d |-> s1.d, err |-> NoError]
        ELSE send(s1.d, OwnCmd(cmdGprsAttach), "attach", script.attach), LAMBDA s2 :
    IF ~IsNil(s2.err)
    THEN [d |-> s2.d, err |-> Wrap("failed to attach to GPRS", s2.err)]
    ELSE
    Let(send(s2.d, OwnCmd(cmdMultiConn), "mux", script.mux), LAMBDA s3 :
    IF ~IsNil(s3.err)
    THEN [d |-> s3.d, err |-> Wrap("failed to enable multi-connection", s3.err)]
    ELSE
    Let(CsttCmd(apn, user, password), LAMBDA cstt :
    Let(BuildCmd(s3.d, cstt), LAMBDA d3 :
    Let(send(d3, ViewCmd(Len(cstt)), "cstt", script.cstt), LAMBDA s4 :
    IF ~IsNil(s4.err)
    THEN [d |-> s4.d, err |-> Wrap("failed to set APN", s4.err)]
    ELSE
    Let(send(s4.d, OwnCmd(cmdStartWireless), "ciicr", script.ciicr), LAMBDA s5 :
    IF ~IsNil(s5.err)
    THEN [d |-> s5.d, err |-> Wrap("failed to bring up wireless connection", s5.err)]
    ELSE
    Let(sendWithOptions(s5.d, OwnCmd(cmdGetIp), "ip", "cifsr", script.cifsr), LAMBDA s6 :
    IF ~IsNil(s6.err)
    THEN [d |-> s6.d, err |-> Wrap("failed to get IP address", s6.err)]
    ELSE [d |-> [s6.d EXCEPT !.IP = CachedIP(s6.d)], err |-> NoError]))))))))

\* A loop that gives up at the first close the device does not accept
RECURSIVE CloseAllUntilError(_, _, _)
CloseAllUntilError(d, i, closes) ==
    IF i >= MaxConnections THEN d
    ELSE IF d.connections[i] # NoConn
    THEN Let(CloseConnection(d, i, closes[i]), LAMBDA r :
             IF ~IsNil(r.err) THEN r.d ELSE CloseAllUntilError(r.d, i + 1, closes))
    ELSE Call3(CloseAllUntilError, d, i + 1, closes)

\* The loop of Disconnect from slot i on (gprs.go:117-121): every occupied slot
\* is closed, the error dropped.  closes[i] is the device's answer to the close
\* command of slot i.
RECURSIVE CloseAll(_, _, _)
CloseAll(d, i, closes) ==
    IF i >= MaxConnections THEN d
    ELSE IF d.connections[i] # NoConn
    THEN Call3(CloseAll, CloseConnection(d, i, closes[i]).d, i + 1, closes)
    ELSE Call3(CloseAll, d, i + 1, closes)

\* Disconnect().  script.close[i] answers the close of slot i, script.shut the
\* +CIPSHUT and script.detach the +CGATT=0.
Disconnect(d, script) ==
    Let(CloseAll(d, 0, script.close), LAMBDA d1 :
    Let(send(d1, OwnCmd(cmdShutPdp), "shut", script.shut), LAMBDA s2 :
    IF ~IsNil(s2.err)
    THEN [d |-> s2.d, err |-> Wrap("failed to shut down PDP context", s2.err)]
    ELSE
    Let(send(s2.d, OwnCmd(cmdGprsDetach), "detach", script.detach), LAMBDA s3 :
    IF ~IsNil(s3.err)
    THEN [d |-> s3.d, err |-> Wrap("failed to detach from GPRS", s3.err)]
    ELSE [d |-> [s3.d EXCEPT !.IP = <<>>], err |-> NoError])))

\* d.uart.Write(chunk) in connectionSend: the raw bytes go out as they are, and
\* the device's answer queues behind whatever is still pending
WriteData(d, chunk, reply) ==
    IF reply.werr
    THEN [d |-> d, err |-> Wrap("failed to send data", Error("uart write", <<>>))]
    ELSE [d |-> [d EXCEPT !.rx = @ \o reply.bytes,
                          !.tx = Append(@, [step |-> "data", bytes |-> chunk])],
          err |-> NoError]

\* A chunk size that takes the whole rest of the payload
ChunkSizeUnbounded(len, offset) == len - offset

\* The size of the chunk at offset (gprs.go:305-308)
ChunkSize(len, offset) == IF len - offset > maxChunk THEN maxChunk ELSE len - offset

\* A count that takes every acknowledged chunk for a full one
AddSentChunkLimit(totalSent, size) == totalSent + maxChunk

\* The byte count after a chunk has been acknowledged (gprs.go:346)
AddSent(totalSent, size) == totalSent + size

\* The place in the script of the chunk at offset
ChunkIndex(offset) == (offset \div maxChunk) + 1

\* A loop that takes any unit the device sends after +CIPSEND for the prompt
RECURSIVE SendChunksAnyUnit(_, _, _, _, _, _)
SendChunksAnyUnit(d, id, data, offset, totalSent, script) ==
    IF offset >= Len(data) THEN [d |-> d, n |-> totalSent, err |-> NoError]
    ELSE
    Let(script[ChunkIndex(offset)], LAMBDA answer :
    Let(ChunkSize(Len(data), offset), LAMBDA size :
    Let(cmdClipSend \o Itoa(id) \o <<",">> \o Itoa(size), LAMBDA bytes :
    Let(BuildCmd(d, bytes), LAMBDA d1 :
    Let(sendRaw(d1, ViewCmd(Len(bytes)), "send", answer.prompt), LAMBDA s :
    IF ~IsNil(s.err) THEN [d |-> s.d, n |-> totalSent, err |-> s.err]
    ELSE
    Let(readLine(s.d.buffer, s.d.rx), LAMBDA l :
    Let(Dev(s.d, l.buffer, l.end, l.rx, s.d.tx), LAMBDA dl :
    IF ~IsNil(l.err)
    THEN [d |-> dl, n |-> totalSent, err |-> Wrap("failed to read prompt", l.err)]
    ELSE
    Let(WriteData(dl, SubSeq(data, offset + 1, offset + size), answer.data), LAMBDA w :
    IF ~IsNil(w.err) THEN [d |-> w.d, n |-> totalSent, err |-> w.err]
    ELSE
    Let(readResponse(w.d, OwnCmd(<<>>), "send"), LAMBDA r :
    IF ~IsNil(r.err) THEN [d |-> r.d, n |-> totalSent, err |-> r.err]
    ELSE
    Let(offset + maxChunk, LAMBDA next :
    Let(AddSent(totalSent, size), LAMBDA sent :
        SendChunksAnyUnit(r.d, id, data, next, sent, script))))))))))))

\* The loop of connectionSend from offset on, with totalSent bytes acknowledged
\* so far.  script answers the chunks in turn: .prompt the +CIPSEND command,
\* .data the raw write.
RECURSIVE SendChunks(_, _, _, _, _, _)
SendChunks(d, id, data, offset, totalSent, script) ==
    IF offset >= Len(data) THEN [d |-> d, n |-> totalSent, err |-> NoError]
    ELSE
    Let(script[ChunkIndex(offset)], LAMBDA answer :
    Let(ChunkSize(Len(data), offset), LAMBDA size :
    Let(cmdClipSend \o Itoa(id) \o <<",">> \o Itoa(size), LAMBDA bytes :
    Let(BuildCmd(d, bytes), LAMBDA d1 :
    Let(sendRaw(d1, ViewCmd(Len(bytes)), "send", answer.prompt), LAMBDA s :
    IF ~IsNil(s.err) THEN [d |-> s.d, n |-> totalSent, err |-> s.err]
    ELSE
    Let(readLine(s.d.buffer, s.d.rx), LAMBDA l :
    Let(Dev(s.d, l.buffer, l.end, l.rx, s.d.tx), LAMBDA dl :
    IF ~IsNil(l.err)
    THEN [d |-> dl, n |-> totalSent, err |-> Wrap("failed to read prompt", l.err)]
    ELSE IF l.tok # TokenPrompt
    THEN [d |-> dl, n |-> totalSent, err |-> ErrUnexpectedResponse]
    ELSE
    Let(WriteData(dl, SubSeq(data, offset + 1, offset + size), answer.data), LAMBDA w :
    IF ~IsNil(w.err) THEN [d |-> w.d, n |-> totalSent, err |-> w.err]
    ELSE
    Let(readResponse(w.d, OwnCmd(<<>>), "send"), LAMBDA r :
    IF ~IsNil(r.err) THEN [d |-> r.d, n |-> totalSent, err |-> r.err]
    ELSE
    Let(offset + maxChunk, LAMBDA next :
    Let(AddSent(totalSent, size), LAMBDA sent :
        SendChunks(r.d, id, data, next, sent, script))))))))))))

\* A connectionSend that checks the range of the id but not the slot
connectionSendRangeOnly(d, id, data, script) ==
    IF id >= MaxConnections
    THEN [d |-> d, n |-> 0, err |-> Error("invalid connection ID", Itoa(id))]
    ELSE IF Len(data) = 0 THEN [d |-> d, n |-> 0, err |-> NoError]
    ELSE SendChunks(d, id, data, 0, 0, script)

\* connectionSend(id, data)
connectionSend(d, id, data, script) ==
    IF id >= MaxConnections \/ d.connections[id] = NoConn
    THEN [d |-> d, n |-> 0, err |-> Error("invalid connection ID", Itoa(id))]
    ELSE IF Len(data) = 0 THEN [d |-> d, n |-> 0, err |-> NoError]
    ELSE Let(data, LAMBDA payload : SendChunks(d, id, payload, 0, 0, script))

----------------------------------------------------------------------------
(* Receive path: checkForReceivedData and connectionRead *)

\* bytes.Split(s, sep) for a one-byte separator: the parts between the separators
RECURSIVE Split(_, _)
Split(s, sep) ==
    Let(Index(s, <<sep>>), LAMBDA i :
        IF i < 0 THEN <<s>>
        ELSE <<SubSeq(s, 1, i)>> \o Split(SubSeq(s, i + 2, Len(s)), sep))

IsDigit(b) == b \in {Digits[k] : k \in 1 .. 10}
DigitValue(b) == (CHOOSE k \in 1 .. 10 : Digits[k] = b) - 1

\* The value of a string of digits
RECURSIVE DecimalValue(_)
DecimalValue(s) ==
    IF s = <<>> THEN 0
    ELSE 10 * DecimalValue(SubSeq(s, 1, Len(s) - 1)) + DigitValue(s[Len(s)])

\* strconv.Atoi(s) for values within the range of int: an optional sign and at
\* least one digit, nothing else
Atoi(s) ==
    LET signed == s # <<>> /\ Head(s) \in {"+", "-"}
        body == IF signed THEN Tail(s) ELSE s
    IN  IF body = <<>> \/ \E k \in 1 .. Len(body) : ~IsDigit(body[k])
        THEN [ok |-> FALSE, v |-> 0]
        ELSE [ok |-> TRUE,
              v |-> IF Head(s) = "-" THEN 0 - DecimalValue(body) ELSE DecimalValue(body)]

\* A reset that keeps what is buffered for the connection
ResetRecvKeep(lens, cid) == lens

\* d.recvBufLengths[cid] = 0 (gprs.go:439)
ResetRecv(lens, cid) == [lens EXCEPT ![cid] = 0]

\* A length test that refuses nothing
ExceedsBufferNever(n) == FALSE

\* dataLength > MaxBufferSize (gprs.go:435)
ExceedsBuffer(n) == n > MaxBufferSize

\* One pass of the stateFound branch (gprs.go:441-452): uart.Read(d.buffer[:])
\* returns what is pending, at most piece bytes and at most len(d.buffer); of
\* these min(n, dataLength) go to the receive buffer of connection cid.  The
\* result is the device afterwards and the length still expected.
ReadPiece(d, cid, dataLength, piece) ==
    Let(Min(Min(piece, Len(d.rx)), MaxBufferSize), LAMBDA got :
    Let(Min(got, dataLength), LAMBDA n :
    Let(SubSeq(d.rx, 1, n), LAMBDA bytes :
    Let(CopyLen(RecvBufSize, d.recvBufLengths[cid], bytes), LAMBDA stored :
        [d |-> [d EXCEPT !.buffer = CopyInto(@, MaxBufferSize, 0, SubSeq(d.rx, 1, got)),
                         !.rx = SubSeq(@, got + 1, Len(@)),
                         !.recvBuffers[cid] =
                             CopyInto(@, RecvBufSize, d.recvBufLengths[cid], bytes),
                         !.recvBufLengths[cid] = @ + stored],
         dataLength |-> dataLength - stored]))))

\* The stateFound branch of checkForReceivedData, with dataLength bytes still
\* expected for connection cid.  Every uart.Read returns what is pending, at
\* most piece bytes (the delivery comes in pieces) and at most len(d.buffer);
\* with nothing pending the deadline passes.
RECURSIVE ReadData(_, _, _, _)
ReadData(d, cid, dataLength, piece) ==
    IF d.rx = <<>> THEN [d |-> d, err |-> ErrTimeout]
    ELSE
    Let(ReadPiece(d, cid, dataLength, piece), LAMBDA r :
        IF r.dataLength <= 0 THEN [d |-> r.d, err |-> NoError]
        ELSE ReadData(r.d, cid, r.dataLength, piece))

\* The stateStart branch of checkForReceivedData on the line readLine returned
\* (gprs.go:410-439): the error it returns, or the connection id and the
\* length the preamble announces
ParsePreamble(line) ==
    LET fail(msg, text) == [err |-> Error(msg, text), cid |-> -1, dataLength |-> 0]
    IN  Let(Split(line, ","), LAMBDA parts :
        IF Len(parts) < 3 \/ ~HasPrefix(parts[1], <<"+", "R", "E", "C", "E", "I", "V", "E">>)
        THEN fail("invalid +RECEIVE format", line)
        ELSE
        Let(Atoi(TrimSpace(parts[2])), LAMBDA cid :
        IF ~cid.ok \/ cid.v < 0 \/ cid.v >= MaxConnections
        THEN fail("invalid connection ID in +RECEIVE", parts[2])
        ELSE
        Let(Index(parts[3], <<":">>), LAMBDA colon :
        IF colon < 0
        THEN fail("invalid +RECEIVE format, missing data length", parts[3])
        ELSE
        Let(Atoi(SubSeq(parts[3], 1, colon)), LAMBDA dataLength :
        IF ~dataLength.ok \/ dataLength.v <= 0
        THEN fail("invalid data length in +RECEIVE", parts[3])
        ELSE IF ExceedsBuffer(dataLength.v)
        THEN fail("data length exceeds maximum buffer size", Itoa(dataLength.v))
        ELSE [err |-> NoError, cid |-> cid.v, dataLength |-> dataLength.v]))))

\* checkForReceivedData(timeout), the pending bytes delivered in pieces of at
\* most piece bytes
checkForReceivedData(d, piece) ==
    Let(readLine(d.buffer, d.rx), LAMBDA l :
    Let(Dev(d, l.buffer, l.end, l.rx, d.tx), LAMBDA d1 :
    IF ~IsNil(l.err) THEN [d |-> d1, err |-> l.err]
    ELSE IF l.tok # TokenLine THEN [d |-> d1, err |-> Error("unexpected token type", <<>>)]
    ELSE
    Let(ParsePreamble(SubSeq(l.buffer, 1, l.end)), LAMBDA p :
    IF ~IsNil(p.err) THEN [d |-> d1, err |-> p.err]
    ELSE
    Let([d1 EXCEPT !.recvBufLengths = ResetRecv(@, p.cid)], LAMBDA d2 :
        ReadData(d2, p.cid, p.dataLength, piece)))))

\* A result that hands the error of the scan to the caller
EmptyReadErrorFromScan(scanErr) == IF IsNil(scanErr) THEN ErrWouldBlock ELSE scanErr

\* What connectionRead returns when nothing is buffered after the scan: the
\* error of the scan is logged at most (gprs.go:360-368)
EmptyReadError(scanErr) == ErrWouldBlock

\* A read that leaves the buffer as it is and only shortens it
CompactNot(arr, n, k) == arr

\* copy(d.recvBuffers[id][:], d.recvBuffers[id][n:k]) (gprs.go:379)
Compact(arr, n, k) == CopyInto(arr, RecvBufSize, 0, SubSeq(arr, n + 1, k))

\* connectionRead(id, b) for a destination of dstLen bytes and 0 <= id <
\* MaxConnections.  out is what the call copied into b, scan the result of the
\* scan for received data ("none" when it did not run).
connectionRead(d, id, dstLen, piece) ==
    Let(IF d.recvBufLengths[id] = 0
        THEN checkForReceivedData(d, piece)
        ELSE [d |-> d, err |-> Error("none", <<>>)], LAMBDA c :
    Let(c.d.recvBufLengths[id], LAMBDA k :
        IF k = 0
        THEN [d |-> c.d, n |-> 0, out |-> <<>>, err |-> EmptyReadError(c.err), scan |-> c.err]
        ELSE
        Let(Min(dstLen, k), LAMBDA n :
            [d |-> IF n >= k
                   THEN [c.d EXCEPT !.recvBufLengths[id] = 0]
                   ELSE [c.d EXCEPT !.recvBuffers[id] = Compact(@, n, k),
                                    !.recvBufLengths[id] = k - n],
             n |-> n, out |-> SubSeq(c.d.recvBuffers[id], 1, n), err |-> NoError,
             scan |-> c.err])))

----------------------------------------------------------------------------
(* The connection handle: Read, Write and Close of *Connection *)

ErrEOF == Error("io.EOF", <<>>)
ErrInvalidConnection == Error("ErrInvalidConnection", <<>>)
ErrConnectionNotEstablished == Error("ErrConnectionNotEstablished", <<>>)

\* A handle that passes for connected whatever its state
NotConnectedNever(c) == FALSE

\* The state test of Read and Write
NotConnected(c) == c.state # StateConnected

\* c.Read(b), c a *Connection or nil (NoConn), len(b) = dstLen
ConnRead(d, c, dstLen, piece) ==
    IF c = NoConn THEN [d |-> d, n |-> 0, out |-> <<>>, err |-> ErrInvalidConnection]
    ELSE IF NotConnected(c) THEN [d |-> d, n |-> 0, out |-> <<>>, err |-> ErrEOF]
    ELSE Let(connectionRead(d, c.ID, dstLen, piece), LAMBDA r :
             [d |-> r.d, n |-> r.n, out |-> r.out, err |-> r.err])

\* c.Write(b)
ConnWrite(d, c, data, script) ==
    IF c = NoConn THEN [d |-> d, n |-> 0, err |-> ErrInvalidConnection]
    ELSE IF NotConnected(c) THEN [d |-> d, n |-> 0, err |-> ErrConnectionNotEstablished]
    ELSE connectionSend(d, c.ID, data, script)

\* c.Close()
ConnClose(d, c, reply) ==
    IF c = NoConn THEN [d |-> d, err |-> ErrInvalidConnection]
    ELSE CloseConnection(d, c.ID, reply)

\* The Connection value that a handle to c points to once CloseConnection has
\* run on its slot (gprs.go:233-234)
Closed(c) == [c EXCEPT !.state = StateClosing]

----------------------------------------------------------------------------
(* Response lexer (lexer.go): Tokenize, Append, Process, nextLine, parseLine *)

\* MaxBufferSize, MaxTokens and MaxValues of lexer.go
LexerBufferSize == 512
MaxTokens == 16
MaxValues == 8

TokenOK == "TokenOK"
TokenError == "TokenError"
TokenCME == "TokenCME"
TokenCMS == "TokenCMS"
TokenCommand == "TokenCommand"
TokenResponse == "TokenResponse"
TokenURC == "TokenURC"
TokenData == "TokenData"
TokenEmpty == "TokenEmpty"

\* Token{Type, Command, Value, Values[:ValuesLen], Raw}
Token(type, command, value, values, raw) ==
    [Type |-> type, Command |-> command, Value |-> value, Values |-> values, Raw |-> raw]

\* The Lexer fields: buffer is l.buffer[:l.bufferLen], tokens l.tokens[:l.tokenLen]
NewLexer == [buffer |-> <<>>, tokens |-> <<>>]

\* The copy loop of Tokenize and Append: as much of data as the buffer has room for
LexerCopy(buf, data) ==
    buf \o SubSeq(data, 1, Min(Len(data), LexerBufferSize - Len(buf)))

\* nextLine(): fresh tells that line is a slice of its own and not of l.buffer
nextLine(buf) ==
    IF Len(buf) = 0 THEN [found |-> FALSE, line |-> <<>>, rest |-> <<>>, fresh |-> TRUE]
    ELSE IF buf[1] = ">"
    THEN [found |-> TRUE, line |-> <<">">>, rest |-> Tail(buf), fresh |-> TRUE]
    ELSE Let(Index(buf, <<LF>>), LAMBDA idx :
         IF idx = -1 THEN [found |-> FALSE, line |-> <<>>, rest |-> buf, fresh |-> TRUE]
         ELSE [found |-> TRUE,
               line |-> IF idx > 0 /\ buf[idx] = CR THEN SubSeq(buf, 1, idx - 1)
                        ELSE SubSeq(buf, 1, idx),
               rest |-> SubSeq(buf, idx + 2, Len(buf)),
               fresh |-> FALSE])

\* line, a slice of l.buffer from index 0, after the loop l.buffer[i] = rest[i]
\* has moved the rest to the start of the buffer (lexer.go:84-88, 136-140)
LineAfterMove(line, rest) ==
    [i \in 1 .. Len(line) |-> IF i <= Len(rest) THEN rest[i] ELSE line[i]]

\* A split that takes every comma for a separator
RECURSIVE ParseValuesNoQuote(_, _, _, _)
ParseValuesNoQuote(s, inQuote, builder, tempValues) ==
    IF s = <<>>
    THEN IF Len(builder) > 0 /\ Len(tempValues) < MaxValues
         THEN Append(tempValues, builder) ELSE tempValues
    ELSE IF Head(s) = ","
    THEN Call4(ParseValuesNoQuote, Tail(s), inQuote, <<>>,
               IF Len(tempValues) < MaxValues THEN Append(tempValues, builder)
               ELSE tempValues)
    ELSE Call4(ParseValuesNoQuote, Tail(s), inQuote, Append(builder, Head(s)), tempValues)

\* The loop of parseValues over the rest s of the value
RECURSIVE ParseValuesLoop(_, _, _, _)
ParseValuesLoop(s, inQuote, builder, tempValues) ==
    IF s = <<>>
    THEN IF Len(builder) > 0 /\ Len(tempValues) < MaxValues
         THEN Append(tempValues, builder) ELSE tempValues
    ELSE IF Head(s) = "\""
    THEN Call4(ParseValuesLoop, Tail(s), ~inQuote, Append(builder, Head(s)), tempValues)
    ELSE IF Head(s) = "," /\ ~inQuote
    THEN Call4(ParseValuesLoop, Tail(s), inQuote, <<>>,
               IF Len(tempValues) < MaxValues THEN Append(tempValues, builder)
               ELSE tempValues)
    ELSE Call4(ParseValuesLoop, Tail(s), inQuote, Append(builder, Head(s)), tempValues)

\* parseValues(s)
parseValues(s) == ParseValuesLoop(s, FALSE, <<>>, <<>>)

urcs ==
    {<<"+", "C", "R", "E", "G">>, <<"+", "C", "G", "R", "E", "G">>,
     <<"+", "C", "E", "R", "E", "G">>, <<"+", "C", "M", "T", "I">>, <<"+", "C", "M", "T">>,
     <<"+", "C", "U", "S", "D">>, <<"+", "C", "L", "I", "P">>, <<"+", "C", "I", "E", "V">>,
     <<"R", "I", "N", "G">>, <<"+", "D", "T", "M", "F">>, <<"B", "U", "S", "Y">>,
     <<"N", "O", " ", "A", "N", "S", "W", "E", "R">>,
     <<"N", "O", " ", "C", "A", "R", "R", "I", "E", "R">>, <<"+", "C", "P", "A", "S">>,
     <<"+", "I", "P", "D">>}

isURC(cmd) == cmd \in urcs

cmeErrorPrefix == <<"+", "C", "M", "E", " ", "E", "R", "R", "O", "R", ":">>
cmsErrorPrefix == <<"+", "C", "M", "S", " ", "E", "R", "R", "O", "R", ":">>

\* The token parseLine makes of the line it is given
parseLine(line) ==
    IF line = okToken THEN Token(TokenOK, <<>>, <<>>, <<>>, line)
    ELSE IF line = errorToken THEN Token(TokenError, <<>>, <<>>, <<>>, line)
    ELSE IF HasPrefix(line, cmeErrorPrefix)
    THEN Token(TokenCME, <<>>, TrimSpace(SubSeq(line, 12, Len(line))), <<>>, line)
    ELSE IF HasPrefix(line, cmsErrorPrefix)
    THEN Token(TokenCMS, <<>>, TrimSpace(SubSeq(line, 12, Len(line))), <<>>, line)
    ELSE IF line = <<">">> THEN Token(TokenPrompt, <<>>, <<>>, <<>>, line)
    ELSE IF Contains(line, <<":">>)
    THEN Let(Index(line, <<":">>), LAMBDA i :
         Let(TrimSpace(SubSeq(line, 1, i)), LAMBDA command :
         Let(TrimSpace(SubSeq(line, i + 2, Len(line))), LAMBDA value :
             Token(IF isURC(command) THEN TokenURC ELSE TokenResponse,
                   command, value, parseValues(value), line))))
    ELSE IF HasPrefix(line, at) THEN Token(TokenCommand, line, <<>>, <<>>, line)
    ELSE Token(TokenData, <<>>, <<>>, <<>>, line)

\* l.tokens[l.tokenLen] = t; l.tokenLen++, unless the token array is full
AddToken(tokens, t) == IF Len(tokens) < MaxTokens THEN Append(tokens, t) ELSE tokens

\* The loop of Tokenize and of Process: every complete line of the buffer
RECURSIVE ProcessLines(_, _)
ProcessLines(buf, tokens) ==
    Let(nextLine(buf), LAMBDA nl :
        IF ~nl.found THEN [buffer |-> buf, tokens |-> tokens]
        ELSE IF Len(nl.line) = 0
        THEN ProcessLines(nl.rest, AddToken(tokens, Token(TokenEmpty, <<>>, <<>>, <<>>, <<>>)))
        ELSE Let(IF nl.fresh THEN nl.line ELSE LineAfterMove(nl.line, nl.rest), LAMBDA line :
                 ProcessLines(nl.rest, AddToken(tokens, parseLine(line)))))

\* l.Tokenize(data): the lexer afterwards; its tokens are the slice returned
Tokenize(l, data) == ProcessLines(LexerCopy(l.buffer, data), <<>>)

\* l.Append(data): the lexer afterwards and the value returned
LexerAppend(l, data) ==
    IF Len(l.buffer) >= LexerBufferSize THEN [l |-> l, ok |-> FALSE]
    ELSE Let(LexerCopy(l.buffer, data), LAMBDA b :
             [l |-> [l EXCEPT !.buffer = b], ok |-> Len(b) < LexerBufferSize])

\* l.Process(): the lexer afterwards and hasData
Process(l) ==
    [l |-> ProcessLines(l.buffer, <<>>), hasData |-> Len(l.buffer) > 0]

----------------------------------------------------------------------------
(* The device: what it may answer to a command *)

Str_OK == <<"O", "K">>
Str_ERROR == <<"E", "R", "R", "O", "R">>

\* The echo of a command line (echo on): the line as sent, up to its CR
Echo(cmd) == at \o cmd \o <<CR>>

\* The final result code alone, as the device sends it with echo off
OkLine == Reply(crlf \o Str_OK \o crlf)
\* The same after the echo of the command line (echo on): "AT" CR, then CRLF OK CRLF
EchoOk == Reply(<<"A", "T", CR>> \o crlf \o Str_OK \o crlf)
ErrorLine == Reply(crlf \o Str_ERROR \o crlf)
Silence == Reply(<<>>)
\* An unsolicited line in place of the answer
RingLine == Reply(crlf \o <<"R", "I", "N", "G">> \o crlf)

\* Answers to +CGATT?
NotAttachedOk == Reply(crlf \o <<"+", "C", "G", "A", "T", "T", ":", " ", "0">> \o crlf \o crlf \o Str_OK \o crlf)
\* A stream whose first returned line holds OK, the key +CGATT=1 and the value 1
AttachedLine == Reply(Str_OK \o crlf \o <<"+", "C", "G", "A", "T", "T", "=", "1", ":", " ", "1">> \o crlf)

\* The same after the echo of the command line
NotAttachedEcho == Reply(Echo(cmdGprsAttachQuery) \o NotAttachedOk.bytes)

\* Answers to +CIFSR: the address on a line of its own
DottedQuad == <<"1", ".", "2", ".", "3", ".", "4">>
IpBare == Reply(crlf \o DottedQuad \o crlf)
IpEcho == Reply(Echo(cmdGetIp) \o IpBare.bytes)
\* The address followed by a lone LF before the CRLF
IpLf == Reply(DottedQuad \o <<LF>> \o crlf)

\* Answers to +CIPCLOSE and +CIPSHUT
CloseOk == Reply(crlf \o <<"C", "L", "O", "S", "E", " ">> \o Str_OK \o crlf)
ShutOk == Reply(crlf \o <<"S", "H", "U", "T", " ">> \o Str_OK \o crlf)

\* Answers to +CIPSTART: the result code, then the connection result
Str_CONNECT == <<"C", "O", "N", "N", "E", "C", "T">>
ConnectOkEcho == Reply(EchoOk.bytes \o crlf \o Str_CONNECT \o <<" ">> \o Str_OK \o crlf)
ConnectOkPlain == Reply(OkLine.bytes \o crlf \o Str_CONNECT \o <<" ">> \o Str_OK \o crlf)
AlreadyConnect == Reply(EchoOk.bytes \o crlf \o <<"A", "L", "R", "E", "A", "D", "Y", " ">> \o Str_CONNECT \o crlf)
ConnectFail == Reply(EchoOk.bytes \o crlf \o Str_CONNECT \o <<" ", "F", "A", "I", "L">> \o crlf)
ConnectJunk == Reply(EchoOk.bytes \o RingLine.bytes)

\* Answers to +CIPSEND and to the raw data
Str_SEND == <<"S", "E", "N", "D">>
PromptReply == Reply(crlf \o <<">", " ">>)
SendOk == Reply(crlf \o Str_SEND \o <<" ">> \o Str_OK \o crlf)
SendFail == Reply(crlf \o Str_SEND \o <<" ", "F", "A", "I", "L">> \o crlf)

FailReplies == {Silence, OkLine, ErrorLine, RingLine, WriteFails}

----------------------------------------------------------------------------
(* Inputs of the operations *)

\* Bounds of the model
MaxStale == 1        \* an unsolicited line arrives only while fewer bytes than this are pending
MaxChunks == 3       \* the longest payload takes this many chunks
SmallPayload == 10   \* the size of a payload (or of its last chunk) below the chunk limit

H80 == <<"h", ":", "8", "0">>
G81 == <<"g", ":", "8", "1">>
Apn == <<"a">>
NoCredentials == <<<<>>, <<>>>>
UserPassword == <<<<"u">>, <<"p">>>>

\* A Connect script: every step answered with EchoOk but those given
ConnectScript(query, cifsr) ==
    [query |-> query, attach |-> EchoOk, mux |-> EchoOk, cstt |-> EchoOk,
     ciicr |-> EchoOk, cifsr |-> cifsr]
\* The script that Connect gets through
ConnectOk == <<NoCredentials, ConnectScript(EchoOk, IpLf)>>

\* A Disconnect script: the closes of even and odd slots answered by a and b
DisconnectScript(a, b, shut, detach) ==
    [close |-> [i \in Slots |-> IF i % 2 = 0 THEN a ELSE b], shut |-> shut, detach |-> detach]

\* The payload of n bytes that connectionSend is given
Payload(n) == [i \in 1 .. n |-> Digits[(i % 10) + 1]]

\* A connectionSend script of MaxChunks chunks: every chunk prompted and
\* acknowledged, but chunk k answered with p (to +CIPSEND) and a (to the data)
ChunkOk == [prompt |-> PromptReply, data |-> SendOk]
SendScript(k, p, a) ==
    [c \in 1 .. MaxChunks |-> IF c = k THEN [prompt |-> p, data |-> a] ELSE ChunkOk]
AllChunksOk == [c \in 1 .. MaxChunks |-> ChunkOk]

\* The +RECEIVE preamble with the given id and length texts
Str_RECEIVE == <<"+", "R", "E", "C", "E", "I", "V", "E">>
ReceiveLine(id, len) == Str_RECEIVE \o <<",">> \o id \o <<",">> \o len \o <<":">> \o crlf

\* A notification for connection id: the preamble announcing the payload's
\* length, then the payload
Notification(id, payload) == ReceiveLine(Itoa(id), Itoa(Len(payload))) \o payload

\* Payloads: plain bytes, and bytes the framer treats specially
Pay4 == <<"a", "b", "c", "d">>
PayFraming == <<CR, LF, ">", "x", CR, LF>>

----------------------------------------------------------------------------
(* The state machine: one action per operation of the Device *)

\* The device as the running operation finds it.  buffer holds d.buffer[:d.end]:
\* the bytes of the scratch array beyond d.end are dead, every operation
\* overwrites them before it reads them.  In the same way recvBuffers[i] holds
\* d.recvBuffers[i][:d.recvBufLengths[i]], the bytes buffered for connection i.
Self ==
    [connections |-> connections, IP |-> IP, buffer |-> buffer, end |-> end, rx |-> rx,
     recvBuffers |-> recvBuffers, recvBufLengths |-> recvBufLengths, tx |-> <<>>]

\* The operation returns: the device is left as d, and last records the call
DeviceReturn(d, op, arg, err, n, cid) ==
    /\ connections' = d.connections
    /\ IP' = d.IP
    /\ buffer' = SubSeq(d.buffer, 1, d.end)
    /\ end' = d.end
    /\ rx' = d.rx
    /\ recvBuffers' = [i \in Slots |-> SubSeq(d.recvBuffers[i], 1, d.recvBufLengths[i])]
    /\ recvBufLengths' = d.recvBufLengths
    /\ last' = [op |-> op, arg |-> arg, err |-> err, n |-> n, cid |-> cid, tx |-> d.tx]

\* ... of a method of the Device
Return(d, op, arg, err, n, cid) ==
    /\ DeviceReturn(d, op, arg, err, n, cid)
    /\ UNCHANGED <<lexer, handles, wait>>

\* No wait is in progress
NoWait ==
    [pc |-> "idle", caller |-> "none", state |-> "start", left |-> 0, outer |-> 0,
     cmd |-> <<>>, cid |-> -1, dataLength |-> 0, sent |-> 0]

\* New(uart, resetPin, logger)
Init ==
    /\ connections = [i \in Slots |-> NoConn]
    /\ IP = <<>>
    /\ buffer = <<>>
    /\ end = 0
    /\ rx = <<>>
    /\ recvBuffers = [i \in Slots |-> <<>>]
    /\ recvBufLengths = [i \in Slots |-> 0]
    /\ last = [op |-> "New", arg |-> <<>>, err |-> NoError, n |-> 0, cid |-> -1, tx |-> <<>>]
    /\ lexer = NewLexer
    /\ handles = {}
    /\ wait = NoWait

\* Connect(Apn, user, password) for an input <<<<user, password>>, script>>
DoConnect(inputs) ==
    \E in \in inputs, self \in {Self} :
        \E r \in {Connect(self, Apn, in[1][1], in[1][2], in[2])} :
            Return(r.d, "Connect", [user |-> in[1][1], password |-> in[1][2], script |-> in[2]],
                   r.err, 0, -1)

\* Disconnect()
DoDisconnect(scripts) ==
    \E script \in scripts, self \in {Self} :
        \E r \in {Disconnect(self, script)} :
            Return(r.d, "Disconnect", [script |-> script], r.err, 0, -1)

\* Dial(network, address) for an input <<network, address, reply>>
DoDial(inputs) ==
    \E in \in inputs, self \in {Self} :
        \E r \in {Dial(self, in[1], in[2], in[3])} :
            Return(r.d, "Dial", [network |-> in[1], address |-> in[2], reply |-> in[3]],
                   r.err, 0, r.cid)

\* CloseConnection(cid) for an input <<cid, reply>>
DoCloseConnection(inputs) ==
    \E in \in inputs, self \in {Self} :
        \E r \in {CloseConnection(self, in[1], in[2])} :
            Return(r.d, "CloseConnection", [reply |-> in[2]], r.err, 0, in[1])

\* connectionSend(id, payload) for an input <<id, payload size, script>>
DoConnectionSend(inputs) ==
    \E in \in inputs, self \in {Self} :
        \E r \in {connectionSend(self, in[1], Payload(in[2]), in[3])} :
            Return(r.d, "connectionSend", [size |-> in[2], script |-> in[3]], r.err, r.n, in[1])

\* The bytes that reach the UART while a receiving operation runs: the stream
\* the device sends, unless earlier bytes are still pending
Arriving(stream) == IF Len(rx) < MaxStale THEN stream ELSE <<>>

\* checkForReceivedData(timeout) for an input [stream, piece]
DoCheckForReceivedData(inputs) ==
    \E in \in inputs, self \in {Self} :
        \E stream \in {Arriving(in.stream)} :
            \E r \in {checkForReceivedData([self EXCEPT !.rx = @ \o stream], in.piece)} :
                Return(r.d, "checkForReceivedData", [stream |-> stream, piece |-> in.piece],
                       r.err, 0, -1)

\* connectionRead(id, b) for an input [id, dst, stream, piece]: dst is len(b)
DoConnectionRead(inputs) ==
    \E in \in inputs, self \in {Self} :
        \E stream \in {Arriving(in.stream)} :
            \E r \in {connectionRead([self EXCEPT !.rx = @ \o stream], in.id, in.dst, in.piece)} :
                Return(r.d, "connectionRead",
                       [dst |-> in.dst, stream |-> stream, piece |-> in.piece,
                        out |-> r.out, scan |-> r.scan],
                       r.err, r.n, in.id)

\* send(cmd) for an input [cmd, reply]: cmd one of the command constants
DoSend(inputs) ==
    \E in \in inputs, self \in {Self} :
        \E r \in {send(self, OwnCmd(in.cmd), "cmd", in.reply)} :
            Return(r.d, "send", [cmd |-> in.cmd, reply |-> in.reply], r.err, 0, -1)

\* d.readLine(t) for an input stream: the bytes the device sends before the
\* deadline, behind those still pending (new bytes only once the queue is drained)
DoReadLine(streams) ==
    \E s \in streams, self \in {Self} :
        /\ s = <<>> \/ self.rx = <<>>
        /\ \E r \in {readLine(self.buffer, self.rx \o s)} :
               Return(Dev(self, r.buffer, r.end, r.rx, <<>>), "readLine",
                      [stream |-> self.rx \o s, tok |-> r.tok], r.err, 0, -1)

\* The *Connection values the caller may call a method of: the connections of
\* the table (as Dial returned them), the ones it has closed, and nil (as a
\* failed Dial returns it)
Handles == {connections[i] : i \in Slots} \cup handles

HandleId(c) == IF c = NoConn THEN -1 ELSE c.ID

\* c.Read(b) for an input [dst, stream, piece]: dst is len(b)
DoRead(inputs) ==
    \E in \in inputs, c \in Handles, self \in {Self} :
        \E stream \in {Arriving(in.stream)} :
            \E r \in {ConnRead([self EXCEPT !.rx = @ \o stream], c, in.dst, in.piece)} :
                /\ DeviceReturn(r.d, "Read",
                                [handle |-> c, dst |-> in.dst, stream |-> stream, out |-> r.out],
                                r.err, r.n, HandleId(c))
                /\ UNCHANGED <<lexer, handles, wait>>

\* c.Write(b) for an input [size, script]: b is Payload(size)
DoWrite(inputs) ==
    \E in \in inputs, c \in Handles, self \in {Self} :
        \E r \in {ConnWrite(self, c, Payload(in.size), in.script)} :
            /\ DeviceReturn(r.d, "Write", [handle |-> c, size |-> in.size, script |-> in.script],
                            r.err, r.n, HandleId(c))
            /\ UNCHANGED <<lexer, handles, wait>>

\* c.Close(), the device answering the close command with reply.  The
\* connection of the slot is marked closing and leaves the table; the caller
\* keeps its handle.
DoClose(replies) ==
    \E reply \in replies, c \in Handles, self \in {Self} :
        \E r \in {ConnClose(self, c, reply)} :
            /\ DeviceReturn(r.d, "Close", [handle |-> c, reply |-> reply], r.err, 0, HandleId(c))
            /\ handles' = IF c # NoConn /\ connections[c.ID] # NoConn
                          THEN handles \cup {Closed(connections[c.ID])}
                          ELSE handles
            /\ UNCHANGED <<lexer, wait>>

\* What the lexer has been given, and the tokens its calls have returned, since
\* NewLexer or Reset
LexerOps == {"Tokenize", "Append", "Process"}
Fed == IF last.op \in LexerOps THEN last.arg.fed ELSE <<>>
Out == IF last.op \in LexerOps THEN last.arg.out ELSE <<>>

\* The lexer call op returns, having been given data and having returned tokens
LexerReturn(l, op, data, tokens) ==
    /\ lexer' = l
    /\ last' = [op |-> op, arg |-> [fed |-> Fed \o data, out |-> Out \o tokens],
                err |-> NoError, n |-> Len(tokens), cid |-> -1, tx |-> <<>>]
    /\ UNCHANGED <<connections, IP, buffer, end, rx, recvBuffers, recvBufLengths, handles, wait>>

\* The next bytes of a stream that starts with what has been fed: every chunk
NextChunks(streams) ==
    UNION {{SubSeq(s, Len(Fed) + 1, Len(Fed) + k) : k \in 1 .. (Len(s) - Len(Fed))} :
              s \in {t \in streams : HasPrefix(t, Fed)}}

\* l.Tokenize(data)
DoTokenize(streams) ==
    \E data \in NextChunks(streams) :
        \E r \in {Tokenize(lexer, data)} : LexerReturn(r, "Tokenize", data, r.tokens)

\* l.Append(data)
DoAppend(streams) ==
    \E data \in NextChunks(streams) :
        \E r \in {LexerAppend(lexer, data)} : LexerReturn(r.l, "Append", data, <<>>)

\* l.Process()
DoProcess ==
    \E r \in {Process(lexer)} : LexerReturn(r.l, "Process", <<>>, r.l.tokens)

\* l.Reset()
DoReset ==
    /\ lexer' = NewLexer
    /\ last' = [op |-> "Reset", arg |-> <<>>, err |-> NoError, n |-> 0, cid |-> -1, tx |-> <<>>]
    /\ UNCHANGED <<connections, IP, buffer, end, rx, recvBuffers, recvBufLengths, handles, wait>>

\* The device sends an unsolicited line while no operation runs
DeviceSends(lines) ==
    /\ Len(rx) < MaxStale
    /\ \E l \in lines : rx' = rx \o l.bytes
    /\ last' = [op |-> "DeviceSends", arg |-> <<>>, err |-> NoError, n |-> 0, cid |-> -1,
                tx |-> <<>>]
    /\ UNCHANGED <<connections, IP, buffer, end, recvBuffers, recvBufLengths, lexer, handles,
                   wait>>

----------------------------------------------------------------------------
(* The waits, one loop pass per step: clearBuffer's loop, readLine's loop    *)
(* and the loop of checkForReceivedData, with the clock and the device       *)
(* running beside them.  wait.left is the time left before readLine's        *)
(* deadline, wait.outer the time left before that of checkForReceivedData.   *)

\* The timeouts in ticks of the clock, and the number of times the device
\* sends unasked before it falls silent
LineTicks == 2
ScanTicks == 3
MaxEmit == 1

ExpiredNever(left) == FALSE

\* !time.Now().Before(deadline)
Expired(left) == left = 0

\* readLine's switch on one byte b in scanner state state (gprs.go:835-863):
\* done when the call returns, with its token and error
FrameStep(state, buf, e, b) ==
    LET going(st, bf, n) ==
            [done |-> FALSE, state |-> st, tok |-> TokenInvalid, err |-> NoError,
             buffer |-> bf, end |-> n]
        return(tok, err) ==
            [done |-> TRUE, state |-> state, tok |-> tok, err |-> err, buffer |-> buf, end |-> e]
    IN  IF state = "start"
        THEN IF b = CR THEN going("endline", buf, e)
             ELSE IF b = ">" THEN return(TokenPrompt, NoError)
             ELSE IF e >= MaxBufferSize THEN return(TokenInvalid, Error("buffer overflow", <<>>))
             ELSE going("start", AppendBytes(buf, e, <<b>>), e + 1)
        ELSE IF b = LF
             THEN IF IsEmptyLine(e) THEN going("start", buf, e)
                  ELSE return(TokenLine, NoError)
             ELSE going("start", AppendBytes(buf, 0, <<b>>), 1)

\* What the caller of readLine does with the unit it returned: return err to
\* its own caller, or (ret = FALSE) go on to read the payload the preamble
\* announces
AfterLine(w, tok, err, line) ==
    LET return(e) == [ret |-> TRUE, err |-> e, cid |-> -1, dataLength |-> 0]
    IN  IF w.caller = "readLine" THEN return(err)
        ELSE IF w.caller = "send"
        \* readResponse with the default check
        THEN IF ~IsNil(err) THEN return(err)
             ELSE IF tok # TokenLine THEN return(ATError(w.cmd))
             ELSE return(defaultResponseCheck(line))
        ELSE IF w.caller = "connectionSend"
        \* the wait for the prompt
        THEN IF ~IsNil(err) THEN return(Wrap("failed to read prompt", err))
             ELSE IF tok # TokenPrompt THEN return(ErrUnexpectedResponse)
             ELSE return(NoError)
        \* checkForReceivedData, stateStart
        ELSE IF ~IsNil(err) THEN return(err)
             ELSE IF tok # TokenLine THEN return(Error("unexpected token type", <<>>))
             ELSE Let(ParsePreamble(line), LAMBDA p :
                      IF ~IsNil(p.err) THEN return(p.err)
                      ELSE [ret |-> FALSE, err |-> NoError, cid |-> p.cid,
                            dataLength |-> p.dataLength])

\* The wait is over: its caller returns err
WaitReturns(w, err) ==
    /\ wait' = [w EXCEPT !.pc = "idle"]
    /\ last' = [op |-> w.caller, arg |-> [cmd |-> w.cmd], err |-> err, n |-> 0,
                cid |-> w.cid, tx |-> <<>>]

\* readLine is entered: d.end = 0 and the deadline is set
EnterReadLine(w) ==
    /\ end' = 0
    /\ buffer' = <<>>
    /\ wait' = [w EXCEPT !.pc = "line", !.state = "start", !.left = LineTicks]

\* A call of readLine, or of checkForReceivedData, begins
BeginWait(callers) ==
    /\ wait.pc = "idle"
    /\ \E c \in callers :
           EnterReadLine([NoWait EXCEPT !.caller = c, !.sent = wait.sent,
                                        !.outer = IF c = "readLine" THEN 0 ELSE ScanTicks])
    /\ UNCHANGED <<connections, IP, rx, recvBuffers, recvBufLengths, last, lexer, handles>>

\* A call of send(cmd), or the sendRaw of connectionSend, begins: clearBuffer
\* comes first
BeginSend(callers, cmds) ==
    /\ wait.pc = "idle"
    /\ \E c \in callers, cmd \in cmds :
           wait' = [NoWait EXCEPT !.pc = "drain", !.caller = c, !.cmd = cmd,
                                  !.sent = wait.sent]
    /\ UNCHANGED <<connections, IP, buffer, end, rx, recvBuffers, recvBufLengths, last, lexer,
                   handles>>

\* One pass of clearBuffer's loop: Buffered() > 0, and a Read takes what is
\* pending, at most len(d.buffer) bytes, into the scratch buffer
Drain ==
    /\ wait.pc = "drain"
    /\ rx # <<>>
    /\ \E n \in {Min(MaxBufferSize, Len(rx))} :
           /\ buffer' = SubSeq(CopyInto(buffer, MaxBufferSize, 0, SubSeq(rx, 1, n)), 1, end)
           /\ rx' = SubSeq(rx, n + 1, Len(rx))
    /\ UNCHANGED <<connections, IP, end, recvBuffers, recvBufLengths, last, lexer, handles, wait>>

\* clearBuffer's loop ends with nothing pending: the rest of sendRaw, the
\* device answering the write with reply, and on to the wait for the answer
Written(replies) ==
    /\ wait.pc = "drain"
    /\ rx = <<>>
    /\ \E reply \in replies, self \in {Self} :
           \E r \in {sendRaw(self, OwnCmd(wait.cmd), "cmd", reply)} :
               /\ rx' = r.d.rx
               /\ IF IsNil(r.err)
                  THEN EnterReadLine(wait) /\ UNCHANGED last
                  ELSE /\ WaitReturns(wait, r.err)
                       /\ buffer' = SubSeq(r.d.buffer, 1, r.d.end)
                       /\ end' = r.d.end
    /\ UNCHANGED <<connections, IP, recvBuffers, recvBufLengths, lexer, handles>>

\* One pass of readLine's loop with a byte pending, before the deadline
LineStep ==
    /\ wait.pc = "line"
    /\ ~Expired(wait.left)
    /\ rx # <<>>
    /\ rx' = Tail(rx)
    /\ \E f \in {FrameStep(wait.state, buffer, end, Head(rx))} :
           /\ buffer' = SubSeq(f.buffer, 1, f.end)
           /\ end' = f.end
           /\ IF ~f.done
              THEN /\ wait' = [wait EXCEPT !.state = f.state]
                   /\ UNCHANGED <<last, recvBufLengths, recvBuffers>>
              ELSE \E a \in {AfterLine(wait, f.tok, f.err, SubSeq(f.buffer, 1, f.end))} :
                       IF a.ret
                       THEN /\ WaitReturns(wait, a.err)
                            /\ UNCHANGED <<recvBufLengths, recvBuffers>>
                       ELSE /\ wait' = [wait EXCEPT !.pc = "data", !.cid = a.cid,
                                                     !.dataLength = a.dataLength]
                            /\ recvBufLengths' = ResetRecv(recvBufLengths, a.cid)
                            /\ recvBuffers' = [recvBuffers EXCEPT ![a.cid] = <<>>]
                            /\ UNCHANGED last
    /\ UNCHANGED <<connections, IP, lexer, handles>>

\* readLine's loop ends at the deadline: ErrTimeout
LineExpires ==
    /\ wait.pc = "line"
    /\ Expired(wait.left)
    /\ \E a \in {AfterLine(wait, TokenInvalid, ErrTimeout, <<>>)} : WaitReturns(wait, a.err)
    /\ UNCHANGED <<connections, IP, buffer, end, rx, recvBuffers, recvBufLengths, lexer, handles>>

\* One pass of the stateFound branch with bytes pending, before the deadline
\* of checkForReceivedData
DataStep ==
    /\ wait.pc = "data"
    /\ ~Expired(wait.outer)
    /\ rx # <<>>
    /\ \E r \in {ReadPiece(Self, wait.cid, wait.dataLength, MaxBufferSize)} :
           /\ rx' = r.d.rx
           /\ buffer' = SubSeq(r.d.buffer, 1, end)
           /\ recvBuffers' = [i \in Slots |-> SubSeq(r.d.recvBuffers[i], 1, r.d.recvBufLengths[i])]
           /\ recvBufLengths' = r.d.recvBufLengths
           /\ IF r.dataLength <= 0
              THEN WaitReturns(wait, NoError)
              ELSE wait' = [wait EXCEPT !.dataLength = r.dataLength] /\ UNCHANGED last
    /\ UNCHANGED <<connections, IP, end, lexer, handles>>

\* The loop of checkForReceivedData ends at its deadline: ErrTimeout
ScanExpires ==
    /\ wait.pc = "data"
    /\ Expired(wait.outer)
    /\ WaitReturns(wait, ErrTimeout)
    /\ UNCHANGED <<connections, IP, buffer, end, rx, recvBuffers, recvBufLengths, lexer, handles>>

\* Time passes while a wait is in progress
Tick ==
    /\ wait.pc # "idle"
    /\ wait.left > 0 \/ wait.outer > 0
    /\ wait' = [wait EXCEPT !.left = Max(@ - 1, 0), !.outer = Max(@ - 1, 0)]
    /\ UNCHANGED <<connections, IP, buffer, end, rx, recvBuffers, recvBufLengths, last, lexer,
                   handles>>

\* The device sends bytes while a wait is in progress, MaxEmit times in all
DeviceEmits(chunks) ==
    /\ wait.pc # "idle"
    /\ wait.sent < MaxEmit
    /\ Len(rx) < MaxStale
    /\ \E c \in chunks : rx' = rx \o c
    /\ wait' = [wait EXCEPT !.sent = @ + 1]
    /\ UNCHANGED <<connections, IP, buffer, end, recvBuffers, recvBufLengths, last, lexer,
                   handles>>

\* The steps of the program while it waits
WaitSteps(replies) ==
    Drain \/ Written(replies) \/ LineStep \/ LineExpires \/ DataStep \/ ScanExpires

----------------------------------------------------------------------------
(* Spec: the life of the connection table.  Every operation, every answer to  *)
(* Dial and to the close of slot 0, unsolicited bytes between the calls.      *)

DialReplies ==
    {ConnectOkEcho, ConnectOkPlain, AlreadyConnect, ConnectFail, ConnectJunk,
     ErrorLine, Silence, WriteFails}
\* Dial inputs <<network, address, reply>>: every reply, and the calls that fail
\* validation
DialInputs ==
    {<<"tcp", H80, r>> : r \in DialReplies}
    \cup {<<"sctp", H80, ConnectOkEcho>>, <<"tcp", <<"h">>, ConnectOkEcho>>}

CloseReplies == {CloseOk, ErrorLine, RingLine, Silence, WriteFails}
\* CloseConnection inputs <<cid, reply>>: every id with the close accepted, and
\* every answer to the close of slot 0
CloseInputs ==
    {<<c, CloseOk>> : c \in 0 .. MaxConnections}
    \cup {<<0, r>> : r \in CloseReplies}

ConnectInputs == {ConnectOk, <<NoCredentials, ConnectScript(Silence, IpLf)>>}

DisconnectScripts ==
    {DisconnectScript(CloseOk, Silence, ShutOk, EchoOk),
     DisconnectScript(ErrorLine, Silence, ShutOk, Silence),
     DisconnectScript(CloseOk, Silence, ErrorLine, EchoOk)}

\* connectionSend inputs <<id, payload size, script>>
SendInputs ==
    {<<0, SmallPayload, AllChunksOk>>,
     <<1, SmallPayload, SendScript(1, PromptReply, SendFail)>>,
     <<MaxConnections, SmallPayload, AllChunksOk>>}

Next ==
    \/ DoConnect(ConnectInputs)
    \/ DoDisconnect(DisconnectScripts)
    \/ DoDial(DialInputs)
    \/ DoCloseConnection(CloseInputs)
    \/ DoConnectionSend(SendInputs)
    \/ DeviceSends({RingLine, ErrorLine})

Spec == Init /\ [][Next]_vars

----------------------------------------------------------------------------
(* Properties of the connection table, checked under Spec *)

TableFull(conns) == \A i \in Slots : conns[i] # NoConn
Failed(e) == ~IsNil(e)
\* The steps of the uart writes an operation made, in order
Steps(tx) == [k \in 1 .. Len(tx) |-> tx[k].step]

\* C1: a successful Dial returns an id whose slot was empty immediately before
\* the call, so every occupied slot i holds the one record with ID i; and
\* whenever all 5 slots are occupied and the cached address is non-empty, Dial
\* fails with ErrMaxConn and leaves the table unchanged.
C1_DialNeverReturnsOccupiedSlot ==
    /\ [](\A i \in Slots : connections[i] # NoConn => connections[i].ID = i)
    /\ [][last'.op = "Dial" =>
            /\ IsNil(last'.err) =>
                    last'.cid \in Slots /\ connections[last'.cid] = NoConn
            /\ TableFull(connections) /\ IP # <<>> =>
                    last'.err = ErrMaxConn /\ connections' = connections]_vars

\* A Dial on a full table with a cached address has failed with ErrMaxConn
C1_Witness ==
    /\ last.op = "Dial"
    /\ last.err = ErrMaxConn
    /\ IP # <<>>
    /\ TableFull(connections)

\* C2: CloseConnection(id) on an occupied slot leaves slot id empty on every
\* return path and touches no other slot, whatever the device answers to the
\* close command (OK, ERROR, an unexpected line, nothing); when the command
\* fails, the error is returned to the caller.
C2_CloseAlwaysFreesSlot ==
    [][last'.op = "CloseConnection" /\ last'.cid \in Slots
         /\ connections[last'.cid] # NoConn =>
            /\ connections' = [connections EXCEPT ![last'.cid] = NoConn]
            /\ last'.arg.reply \in {ErrorLine, RingLine, Silence, WriteFails} =>
                    Failed(last'.err)]_vars

\* The close of an occupied slot was answered with ERROR: the error came back
\* and the slot is empty
C2_Witness ==
    /\ last.op = "CloseConnection"
    /\ last.arg.reply = ErrorLine
    /\ last.err.kind = "ATError"
    /\ "close" \in {last.tx[k].step : k \in 1 .. Len(last.tx)}
    /\ connections[last.cid] = NoConn
    /\ \E j \in Slots : connections[j] # NoConn

\* C3: whenever Dial returns an error (CONNECT FAIL, an unexpected reply, a
\* command error, a timeout, a validation failure), every slot of the
\* connection table holds what it held before the call.
C3_FailedDialLeavesTable ==
    [][last'.op = "Dial" /\ Failed(last'.err) => connections' = connections]_vars

\* A Dial that sent +CIPSTART into a free slot has failed on CONNECT FAIL,
\* with other connections live
C3_Witness ==
    /\ last.op = "Dial"
    /\ last.err.kind = "ErrCannotConnect"
    /\ last.tx # <<>>
    /\ \E i \in Slots : connections[i] # NoConn
    /\ \E i \in Slots : connections[i] = NoConn

\* The address has no colon: net.SplitHostPort finds no port in it
NoColon(address) == \A k \in 1 .. Len(address) : address[k] # ":"

\* C5: a call that fails local validation (Dial with an empty cached address,
\* a full table, an unsupported network kind or a malformed address;
\* CloseConnection or connectionSend with an out-of-range or unoccupied id)
\* returns an error, writes no byte to the transport, consumes none of the
\* pending bytes and changes neither the table, the receive buffers, the cached
\* address nor the scratch buffer; no address gives ErrNoIP, a full table
\* ErrMaxConn.
C5_ValidationFailuresTouchNothing ==
    [][LET l == last'
           badDial ==
               /\ l.op = "Dial"
               /\ \/ IP = <<>>
                  \/ TableFull(connections)
                  \/ l.arg.network \notin {"tcp", "udp"}
                  \/ NoColon(l.arg.address)
           badId ==
               /\ l.op \in {"CloseConnection", "connectionSend"}
               /\ (l.cid \notin Slots \/ connections[l.cid] = NoConn)
       IN  badDial \/ badId =>
               /\ Failed(l.err)
               /\ l.tx = <<>>
               /\ UNCHANGED <<connections, IP, buffer, end, rx, recvBuffers, recvBufLengths>>
               /\ l.op = "Dial" /\ IP = <<>> => l.err = ErrNoIP
               /\ l.op = "Dial" /\ IP # <<>> /\ TableFull(connections) =>
                      l.err = ErrMaxConn]_vars

\* A Dial with a malformed address has failed while bytes were pending on the
\* transport and a connection was live
C5_Witness ==
    /\ last.op = "Dial"
    /\ last.err.wrap = <<"invalid address format">>
    /\ last.tx = <<>>
    /\ rx # <<>>
    /\ \E i \in Slots : connections[i] # NoConn

----------------------------------------------------------------------------
(* SpecDial: both transport kinds and two remote endpoints, every slot closed *)
(* and dialled again                                                          *)

DialKindInputs ==
    {<<n[1], n[2], r>> : n \in {<<"tcp", H80>>, <<"UDP", G81>>},
                         r \in {ConnectOkEcho, AlreadyConnect, ConnectFail}}
CloseOkInputs == {<<c, CloseOk>> : c \in Slots}

NextDial ==
    \/ DoConnect({ConnectOk})
    \/ DoDial(DialKindInputs)
    \/ DoCloseConnection(CloseOkInputs)

SpecDial == Init /\ [][NextDial]_vars

\* C4: a successful Dial(kind, host:port) happens with a cached address and a
\* reply holding CONNECT OK or ALREADY CONNECT, occupies exactly the
\* lowest-numbered free slot, stores there a record in state Connected with
\* that id, the requested transport kind and the requested host and port, and
\* changes no other slot.
C4_DialOccupiesLowestFreeSlot ==
    [][last'.op = "Dial" /\ IsNil(last'.err) =>
          LET cid == last'.cid
              conn == connections'[cid]
          IN  /\ IP # <<>>
              /\ \/ Contains(last'.arg.reply.bytes, Str_CONNECT \o <<" ">> \o Str_OK)
                 \/ Contains(last'.arg.reply.bytes, AlreadyConnect.bytes)
              /\ cid \in Slots
              /\ connections[cid] = NoConn
              /\ \A j \in Slots : j < cid => connections[j] # NoConn
              /\ conn # NoConn
              /\ conn.ID = cid
              /\ conn.state = StateConnected
              /\ conn.Type = (IF last'.arg.network \in {"tcp", "TCP"} THEN TCP ELSE UDP)
              /\ conn.RemoteIP \o <<":">> \o conn.RemotePort = last'.arg.address
              /\ NoColon(conn.RemotePort)
              /\ \A j \in Slots \ {cid} : connections'[j] = connections[j]]_vars

\* A UDP Dial answered ALREADY CONNECT has taken slot 2, the lowest free one,
\* between live connections
C4_Witness ==
    /\ last.op = "Dial"
    /\ IsNil(last.err)
    /\ last.arg.reply = AlreadyConnect
    /\ last.cid = 2
    /\ connections[2] = Connection(2, UDP, StateConnected, <<"g">>, <<"8", "1">>)
    /\ connections[0] # NoConn /\ connections[1] # NoConn /\ connections[3] # NoConn
    /\ connections[4] = NoConn

----------------------------------------------------------------------------
(* SpecConnect: Connect against every answer to every one of its steps, on a  *)
(* device with and without an address and with live connections               *)

ConnectSteps == <<"query", "attach", "mux", "cstt", "ciicr", "cifsr">>

\* The scripts of a device that reports "not attached", accepts the attach and
\* every later command, and answers the address query with the bare address
\* line: with echo off, with echo on, and with the attach query answered by
\* the result code alone
ScenarioScripts ==
    {[query |-> q, attach |-> ok, mux |-> ok, cstt |-> ok, ciicr |-> ok, cifsr |-> ip] :
        q \in {NotAttachedOk, NotAttachedEcho, EchoOk}, ok \in {OkLine, EchoOk},
        ip \in {IpBare, IpEcho}}

\* The answers that make a step fail
StepFailures(step) ==
    IF step = "cifsr" THEN {Silence, ErrorLine, IpBare, WriteFails} ELSE FailReplies

\* Every step failing in every way, on a device found attached or not
ConnectFailScripts ==
    UNION {{[ConnectScript(q, IpLf) EXCEPT ![ConnectSteps[k]] = r] :
                r \in StepFailures(ConnectSteps[k])} :
           q \in {EchoOk, AttachedLine}, k \in 1 .. Len(ConnectSteps)}

ConnectAllInputs ==
    {<<NoCredentials, sc>> :
        sc \in ScenarioScripts \cup ConnectFailScripts
                \cup {ConnectScript(EchoOk, IpLf), ConnectScript(AttachedLine, IpLf)}}
    \cup {<<UserPassword, ConnectScript(EchoOk, IpLf)>>,
          <<UserPassword, [ConnectScript(EchoOk, IpLf) EXCEPT !.cstt = ErrorLine]>>}

NextConnect ==
    \/ DoConnect(ConnectAllInputs)
    \/ DoDial({<<"tcp", H80, ConnectOkEcho>>})

SpecConnect == Init /\ [][NextConnect]_vars

\* C6: Connect(apn, "", "") against a device that reports not attached, accepts
\* the attach, answers every later command successfully and answers the
\* address query with a bare CRLF-terminated dotted-quad line returns success
\* with the cached address equal to that dotted-quad.
C6_ConnectScenarioCachesAddress ==
    last.op = "Connect" /\ last.arg.user = <<>> /\ last.arg.password = <<>>
        /\ last.arg.script \in ScenarioScripts =>
            IsNil(last.err) /\ IP = DottedQuad

\* Under a script of the scenario Connect has sent all six commands and
\* failed on the format of the address line
C6_Witness ==
    /\ last.op = "Connect"
    /\ last.arg.script \in ScenarioScripts
    /\ Steps(last.tx) = ConnectSteps
    /\ last.err.kind = "invalid response format"
    /\ last.err.wrap = <<"failed to get IP address">>
    /\ IP = <<>>

\* The wrap of the error Connect returns from a step
StepMessage ==
    [query |-> "failed to check GPRS attachment", attach |-> "failed to attach to GPRS",
     mux |-> "failed to enable multi-connection", cstt |-> "failed to set APN",
     ciicr |-> "failed to bring up wireless connection",
     cifsr |-> "failed to get IP address"]

\* The answer lets the step succeed
Accepted(step, reply) ==
    CASE step = "cifsr" -> reply = IpLf
      [] step = "query" -> reply \in {EchoOk, AttachedLine}
      [] OTHER -> reply = EchoOk

\* The steps Connect takes when none fails: no attach on a device found attached
Planned(script) ==
    IF script.query = AttachedLine
    THEN <<"query", "mux", "cstt", "ciicr", "cifsr">>
    ELSE ConnectSteps

\* C7: the commands Connect transmits are a prefix of attach-query, [attach],
\* enable-multiplex, set-bearer, bring-up-bearer, query-address; at the first
\* step whose answer fails it, Connect returns the error of that step, has
\* transmitted nothing after that step's command, and leaves the cached
\* address and the connection table as they were; with no failing step it
\* transmits them all and succeeds.
C7_ConnectAbortsAtFailingStep ==
    [][last'.op = "Connect" =>
          LET script == last'.arg.script
              plan == Planned(script)
              bad == {k \in 1 .. Len(plan) : ~Accepted(plan[k], script[plan[k]])}
              sent == Steps(last'.tx)
          IN  IF bad = {}
              THEN IsNil(last'.err) /\ sent = plan
              ELSE LET k == CHOOSE b \in bad : \A c \in bad : b <= c
                   IN  /\ Failed(last'.err)
                       /\ last'.err.wrap = <<StepMessage[plan[k]]>>
                       /\ sent = SubSeq(plan, 1, IF script[plan[k]] = WriteFails
                                                 THEN k - 1 ELSE k)
                       /\ IP' = IP
                       /\ connections' = connections]_vars

\* With an address cached and a connection live, Connect has failed at the
\* set-bearer step of a device found attached, after sending three commands
C7_Witness ==
    /\ last.op = "Connect"
    /\ last.err.wrap = <<"failed to set APN">>
    /\ Steps(last.tx) = <<"query", "mux", "cstt">>
    /\ IP # <<>>
    /\ \E i \in Slots : connections[i] # NoConn

----------------------------------------------------------------------------
(* SpecDisconnect: Disconnect against every answer to its closes, to the      *)
(* +CIPSHUT and to the detach                                                 *)

DisconnectAllScripts ==
    {DisconnectScript(a, b, shut, detach) :
        a \in {CloseOk, ErrorLine}, b \in {Silence, WriteFails},
        shut \in {ShutOk, ErrorLine, Silence, WriteFails},
        detach \in {EchoOk, ErrorLine, Silence}}

NextDisconnect ==
    \/ DoConnect({ConnectOk})
    \/ DoDial({<<"tcp", H80, ConnectOkEcho>>})
    \/ DoCloseConnection({<<0, CloseOk>>, <<2, Silence>>})
    \/ DoDisconnect(DisconnectAllScripts)

SpecDisconnect == Init /\ [][NextDisconnect]_vars

\* C8: Disconnect attempts every step whatever fails: when it returns, with or
\* without an error, the +CIPSHUT and the +CGATT=0 have been transmitted
\* (unless the write itself failed) and the cached address is empty.
C8_DisconnectAlwaysClearsAddress ==
    last.op = "Disconnect" =>
        /\ IP = <<>>
        /\ last.arg.script.shut # WriteFails =>
               \E k \in 1 .. Len(last.tx) : last.tx[k].step = "shut"
        /\ last.arg.script.detach # WriteFails =>
               \E k \in 1 .. Len(last.tx) : last.tx[k].step = "detach"

\* Disconnect has returned the error of a refused +CIPSHUT with the address
\* still cached and no detach transmitted
C8_Witness ==
    /\ last.op = "Disconnect"
    /\ last.arg.script.shut = ErrorLine
    /\ last.err.wrap = <<"failed to shut down PDP context">>
    /\ \A k \in 1 .. Len(last.tx) : last.tx[k].step # "detach"
    /\ IP # <<>>

\* C9: after Disconnect returns, with success or with an error, every
\* connection slot is empty, whatever the device answered to the closes.
C9_DisconnectEmptiesTable ==
    last.op = "Disconnect" => \A i \in Slots : connections[i] = NoConn

\* Disconnect has sent three closes, the first of them refused, and returned
\* an error
C9_Witness ==
    /\ last.op = "Disconnect"
    /\ last.arg.script.close[0] = ErrorLine
    /\ Cardinality({k \in 1 .. Len(last.tx) : last.tx[k].step = "close"}) >= 3
    /\ Failed(last.err)
    /\ \A i \in Slots : connections[i] = NoConn

----------------------------------------------------------------------------
(* SpecSend: connectionSend with payloads of up to MaxChunks chunks, every    *)
(* chunk failing in every way                                                 *)

\* Payload sizes: nothing, less than a chunk, whole chunks, whole chunks and a rest
PayloadSizes ==
    {0, SmallPayload}
    \cup {c * maxChunk : c \in 1 .. MaxChunks}
    \cup {c * maxChunk + SmallPayload : c \in 1 .. (MaxChunks - 1)}

\* What makes a chunk fail: no prompt (silence, ERROR, a failing write of the
\* command), or no SEND OK after the data (SEND FAIL, silence, an unsolicited
\* line, a failing write of the data)
ChunkFailures ==
    {[prompt |-> p, data |-> SendOk] : p \in {Silence, ErrorLine, RingLine, OkLine, WriteFails}}
    \cup {[prompt |-> PromptReply, data |-> a] : a \in {SendFail, Silence, RingLine, WriteFails}}

\* The number of chunks a payload of size bytes takes
Chunks(size) == (size + maxChunk - 1) \div maxChunk

\* The scripts for a payload of c chunks: no chunk fails, or one of them does
SendScripts(c) ==
    {AllChunksOk}
    \cup {[AllChunksOk EXCEPT ![k] = f] : k \in 1 .. c, f \in ChunkFailures}

SendAllInputs ==
    UNION {{<<0, size, sc>> : sc \in SendScripts(Chunks(size))} : size \in PayloadSizes}
    \cup {<<1, SmallPayload, AllChunksOk>>}

NextSend ==
    \/ DoConnect({ConnectOk})
    \/ DoDial({<<"tcp", H80, ConnectOkEcho>>})
    \/ DoConnectionSend(SendAllInputs)

SpecSend == Init /\ [][NextSend]_vars

\* The bytes of the data writes among the uart writes tx
RECURSIVE DataWritten(_)
DataWritten(tx) ==
    IF tx = <<>> THEN 0
    ELSE (IF Head(tx).step = "data" THEN Len(Head(tx).bytes) ELSE 0) + DataWritten(Tail(tx))

\* C10: connectionSend on an occupied slot returns the total size of the chunks
\* acknowledged before the first failure: (k * maxChunk, error) when chunk k
\* (counted from 0) is the first to fail, (len(payload), nil) when none fails;
\* never more than the bytes it wrote as data.
C10_SendCountsAcknowledgedChunks ==
    last.op = "connectionSend" /\ last.cid \in Slots /\ connections[last.cid] # NoConn =>
        LET size == last.arg.size
            bad == {k \in 1 .. Chunks(size) : last.arg.script[k] # ChunkOk}
        IN  /\ last.n <= DataWritten(last.tx)
            /\ IF bad = {}
               THEN IsNil(last.err) /\ last.n = size
               ELSE LET k == CHOOSE b \in bad : \A c \in bad : b <= c
                    IN  Failed(last.err) /\ last.n = (k - 1) * maxChunk

\* A payload of two chunks and a rest, SEND FAIL on the second chunk: one
\* chunk reported, ErrCannotSend
C10_Witness ==
    /\ last.op = "connectionSend"
    /\ last.arg.size = 2 * maxChunk + SmallPayload
    /\ last.arg.script[2].data = SendFail
    /\ last.err = ErrCannotSend
    /\ last.n = maxChunk
    /\ DataWritten(last.tx) = 2 * maxChunk

\* The data writes among the uart writes tx
DataWrites(tx) == SelectSeq(tx, LAMBDA w : w.step = "data")

\* The first chunk of the script that is not answered with a prompt, or 0
FirstUnprompted(script, chunks) ==
    LET bad == {k \in 1 .. chunks : script[k].prompt # PromptReply}
    IN  IF bad = {} THEN 0 ELSE CHOOSE b \in bad : \A c \in bad : b <= c

\* C11: connectionSend writes, chunk by chunk, the +CIPSEND command and then,
\* once the prompt has been read, the raw chunk: every data write directly
\* follows the command write of its chunk.  When the device answers the
\* command of a chunk with anything but the prompt (a line, nothing, a 2-byte
\* line the framer does not deliver), the call returns an error with no byte of
\* that chunk or of a later one written: ErrUnexpectedResponse when a line was
\* read in place of the prompt, the wrapped ErrTimeout when nothing was.
C11_NoChunkBeforePrompt ==
    last.op = "connectionSend" /\ last.cid \in Slots /\ connections[last.cid] # NoConn =>
        LET tx == last.tx
            script == last.arg.script
            k == FirstUnprompted(script, Chunks(last.arg.size))
        IN  /\ \A i \in 1 .. Len(tx) : tx[i].step = (IF i % 2 = 1 THEN "send" ELSE "data")
            /\ k > 0 /\ (\A j \in 1 .. (k - 1) : script[j] = ChunkOk) =>
                  /\ Failed(last.err)
                  /\ Len(DataWrites(tx)) = k - 1
                  /\ DataWritten(tx) = (k - 1) * maxChunk
                  /\ script[k].prompt \in {ErrorLine, RingLine} =>
                         last.err = ErrUnexpectedResponse
                  /\ script[k].prompt \in {Silence, OkLine} =>
                         last.err = Wrap("failed to read prompt", ErrTimeout)

\* The second chunk's command was answered with a line, not the prompt: the
\* first chunk went out, the second command too, and nothing after it
C11_Witness ==
    /\ last.op = "connectionSend"
    /\ last.arg.size = 2 * maxChunk
    /\ last.arg.script[2].prompt = RingLine
    /\ last.err = ErrUnexpectedResponse
    /\ Steps(last.tx) = <<"send", "data", "send">>
    /\ DataWritten(last.tx) = maxChunk

\* The bytes of the data writes among the uart writes tx, in order
RECURSIVE DataBytes(_)
DataBytes(tx) ==
    IF tx = <<>> THEN <<>>
    ELSE (IF Head(tx).step = "data" THEN Head(tx).bytes ELSE <<>>) \o DataBytes(Tail(tx))

HasSuffix(s, pat) ==
    Len(s) >= Len(pat) /\ SubSeq(s, Len(s) - Len(pat) + 1, Len(s)) = pat

----------------------------------------------------------------------------
(* SpecRecv: checkForReceivedData fed with well-formed notifications, bad     *)
(* lengths, bad ids and other lines, delivered in pieces, on a device with    *)
(* zero to MaxConnections connections                                         *)

\* Well-formed notifications: plain and framing bytes, the longest payload the
\* scan takes, and a notification that follows empty lines
WellFormed ==
    {[id |-> 0, payload |-> p, stream |-> Notification(0, p)] :
        p \in {Pay4, PayFraming, Payload(MaxBufferSize)}}
    \cup {[id |-> 1, payload |-> Pay4, stream |-> crlf \o crlf \o Notification(1, Pay4)]}

\* Notifications for connection 0 whose length field is text, followed by
\* payload
LengthCase(text, payload) ==
    [text |-> text, stream |-> ReceiveLine(<<"0">>, text) \o payload]
LengthCases ==
    {LengthCase(t, Pay4) : t \in {<<"4">>, <<"0">>, <<"-", "4">>, <<"x">>, <<>>, <<" ", "4">>}}
    \cup {LengthCase(Itoa(n), Payload(n)) :
            n \in {MaxBufferSize, MaxBufferSize + 1, RecvBufSize, RecvBufSize + 1}}

\* Notifications of four bytes whose id field is text
IdCase(text) == [text |-> text, stream |-> ReceiveLine(text, <<"4">>) \o Pay4]
IdCases ==
    {IdCase(t) : t \in {<<"0">>, <<"4">>, <<"5">>, <<"7">>, <<"-", "1">>, <<"x">>, <<>>}}

\* Streams without a complete notification: nothing, another line, a prompt, a
\* preamble cut short, fewer bytes than announced
OtherStreams ==
    {<<>>, RingLine.bytes, PromptReply.bytes,
     Str_RECEIVE \o <<",", "0">> \o crlf,
     Str_RECEIVE \o <<",", "0", ",", "4">> \o crlf \o Pay4,
     ReceiveLine(<<"0">>, <<"4">>) \o <<"a", "b">>}

\* The sizes of the pieces a delivery comes in
Pieces == {1, MaxBufferSize}

RecvInputs ==
    {[stream |-> w.stream, piece |-> p] :
        w \in {x \in WellFormed : Len(x.payload) < MaxBufferSize}, p \in Pieces}
    \cup {[stream |-> w.stream, piece |-> p] :
            w \in WellFormed, p \in {MaxBufferSize \div 2, MaxBufferSize}}
    \cup {[stream |-> c.stream, piece |-> MaxBufferSize] : c \in LengthCases \cup IdCases}
    \cup {[stream |-> s, piece |-> 2] : s \in OtherStreams}

NextRecv ==
    \/ DoConnect({ConnectOk})
    \/ DoDial({<<"tcp", H80, ConnectOkEcho>>})
    \/ DoCheckForReceivedData(RecvInputs)

SpecRecv == Init /\ [][NextRecv]_vars

\* The bytes buffered for connection i
Buffered(bufs, lens, i) == SubSeq(bufs[i], 1, lens[i])

\* No connection but those of keep has its buffered bytes changed by the step
OthersKeep(keep) ==
    \A j \in Slots \ keep :
        /\ recvBufLengths'[j] = recvBufLengths[j]
        /\ Buffered(recvBuffers', recvBufLengths', j) = Buffered(recvBuffers, recvBufLengths, j)

\* C13: checkForReceivedData on a stream "+RECEIVE,<id>,<n>:" CRLF and n
\* payload bytes, id an occupied connection and n a length the scan takes,
\* returns success with exactly those n bytes buffered for id, whatever was
\* buffered for it before, also when the payload holds CR, LF or '>' and
\* however the delivery is split; the other connections keep what they had.
C13_ReceiveBuffersThePayload ==
    [][\A w \in WellFormed :
          /\ last'.op = "checkForReceivedData"
          /\ rx = <<>>
          /\ last'.arg.stream = w.stream
          /\ connections[w.id] # NoConn
          => /\ IsNil(last'.err)
             /\ recvBufLengths'[w.id] = Len(w.payload)
             /\ Buffered(recvBuffers', recvBufLengths', w.id) = w.payload
             /\ OthersKeep({w.id})
             /\ connections' = connections]_vars

\* Six bytes holding CR, LF and '>' have arrived byte by byte for connection 0
\* and replaced a longer payload buffered there, while connection 1 holds its own
C13_Witness ==
    /\ last.op = "checkForReceivedData"
    /\ IsNil(last.err)
    /\ last.arg.stream = Notification(0, PayFraming)
    /\ last.arg.piece = 1
    /\ connections[0] # NoConn
    /\ Buffered(recvBuffers, recvBufLengths, 0) = PayFraming
    /\ Buffered(recvBuffers, recvBufLengths, 1) = Pay4

\* The length a length field announces, or -1 when it is no number
Announced(text) == IF Atoi(text).ok THEN Atoi(text).v ELSE -1

\* The step leaves every connection's buffered bytes as they were
BuffersKeep == OthersKeep({})

\* C14: checkForReceivedData accepts the announced length n of a notification
\* for an occupied connection exactly when 0 < n <= RecvBufSize (1024); for
\* every other length field (zero, negative, no number, above the capacity) it
\* returns an error and changes no connection's buffered bytes.
C14_LengthWithinReceiveCapacity ==
    [][\A c \in LengthCases :
          /\ last'.op = "checkForReceivedData"
          /\ rx = <<>>
          /\ last'.arg.stream = c.stream
          /\ connections[0] # NoConn
          => IF Announced(c.text) \in 1 .. RecvBufSize
             THEN IsNil(last'.err)
             ELSE Failed(last'.err) /\ BuffersKeep]_vars

\* A notification announcing 257 bytes for the occupied connection 0, with
\* those bytes behind it, has been refused
C14_Witness ==
    /\ last.op = "checkForReceivedData"
    /\ last.arg.stream = LengthCase(Itoa(MaxBufferSize + 1), Payload(MaxBufferSize + 1)).stream
    /\ connections[0] # NoConn
    /\ last.err.kind = "data length exceeds maximum buffer size"
    /\ recvBufLengths[0] = 0

\* C15: a notification that announces more bytes than the connection's receive
\* buffer holds (RecvBufSize), followed by that many bytes, ends with
\* RecvBufSize bytes buffered for the connection, and nothing written outside
\* its buffer.
C15_OverlongNotificationFillsBuffer ==
    [][/\ last'.op = "checkForReceivedData"
       /\ rx = <<>>
       /\ last'.arg.stream = LengthCase(Itoa(RecvBufSize + 1), Payload(RecvBufSize + 1)).stream
       /\ connections[0] # NoConn
       => /\ recvBufLengths'[0] = RecvBufSize
          /\ \A j \in Slots : Len(recvBuffers'[j]) <= RecvBufSize]_vars

\* C15, amended: such a notification is refused with an error; every
\* connection keeps the bytes it had buffered, and nothing is written outside
\* a buffer.
C15_OverlongNotificationRefused ==
    [][/\ last'.op = "checkForReceivedData"
       /\ rx = <<>>
       /\ last'.arg.stream = LengthCase(Itoa(RecvBufSize + 1), Payload(RecvBufSize + 1)).stream
       /\ connections[0] # NoConn
       => /\ Failed(last'.err)
          /\ BuffersKeep
          /\ \A j \in Slots : Len(recvBuffers'[j]) <= RecvBufSize]_vars

\* A notification announcing 1025 bytes for the occupied connection 0 has been
\* refused: the four bytes buffered before are still there, the payload is
\* still pending
C15_Witness ==
    /\ last.op = "checkForReceivedData"
    /\ last.arg.stream = LengthCase(Itoa(RecvBufSize + 1), Payload(RecvBufSize + 1)).stream
    /\ connections[0] # NoConn
    /\ last.err.kind = "data length exceeds maximum buffer size"
    /\ Buffered(recvBuffers, recvBufLengths, 0) = Pay4
    /\ Len(rx) = RecvBufSize + 1

\* C16: a notification that names a connection id out of range (>= 5) or an
\* id in range whose slot is empty is refused with an error, and no
\* connection's buffered bytes change.
C16_UnknownConnectionRefused ==
    [][\A c \in IdCases :
          /\ last'.op = "checkForReceivedData"
          /\ rx = <<>>
          /\ last'.arg.stream = c.stream
          /\ \/ Announced(c.text) >= MaxConnections
             \/ Announced(c.text) \in Slots /\ connections[Announced(c.text)] = NoConn
          => Failed(last'.err) /\ BuffersKeep]_vars

\* Four bytes announced for connection 4, whose slot is empty, are buffered
\* for it and the scan has returned success
C16_Witness ==
    /\ last.op = "checkForReceivedData"
    /\ last.arg.stream = IdCase(<<"4">>).stream
    /\ IsNil(last.err)
    /\ connections[4] = NoConn
    /\ Buffered(recvBuffers, recvBufLengths, 4) = Pay4

----------------------------------------------------------------------------
(* SpecRead: connectionRead with destinations of several sizes, on empty and  *)
(* filled buffers, with and without a notification arriving                   *)

\* Streams that hold no notification for a connection in range: nothing,
\* another line, a prompt, a notification for connection 5
NoNotification == {<<>>, RingLine.bytes, PromptReply.bytes, IdCase(<<"5">>).stream}

\* The sizes of the destination: none, less than what is buffered, all of it
DstSizes == {0, 1, 3, RecvBufSize}

\* connectionRead is called by Connection.Read with the id of the connection,
\* which Dial takes from 0 .. MaxConnections - 1
ReadInputs ==
    {[id |-> 0, dst |-> n, stream |-> s, piece |-> MaxBufferSize] :
        n \in DstSizes, s \in {<<>>, Notification(0, PayFraming)}}
    \cup {[id |-> i, dst |-> RecvBufSize, stream |-> s, piece |-> 1] :
            i \in {0, 1}, s \in NoNotification \cup {Notification(1, Pay4)}}

NextRead ==
    \/ DoConnect({ConnectOk})
    \/ DoDial({<<"tcp", H80, ConnectOkEcho>>})
    \/ DoConnectionRead(ReadInputs)

SpecRead == Init /\ [][NextRead]_vars

\* C17: connectionRead on a connection with nothing buffered runs the scan
\* once.  If nothing arrives the scan returns ErrTimeout; whenever no
\* notification for a connection arrives (nothing, or another line, which the
\* scan refuses at once) connectionRead returns (0, ErrWouldBlock) and leaves
\* the table and every receive buffer as they were; it never returns
\* ErrTimeout.
C17_EmptyReadWouldBlock ==
    [][last'.op = "connectionRead" /\ recvBufLengths[last'.cid] = 0 /\ rx = <<>> =>
          /\ last'.arg.scan.kind # "none"
          /\ last'.err # ErrTimeout
          /\ last'.arg.stream = <<>> => last'.arg.scan = ErrTimeout
          /\ last'.arg.stream \in NoNotification =>
                /\ last'.n = 0
                /\ last'.err = ErrWouldBlock
                /\ last'.arg.out = <<>>
                /\ connections' = connections
                /\ BuffersKeep]_vars

\* A read on connection 1, which has nothing buffered, found nothing arriving:
\* the scan timed out, the read reports would-block, connection 0 keeps its bytes
C17_Witness ==
    /\ last.op = "connectionRead"
    /\ last.cid = 1
    /\ connections[1] # NoConn
    /\ last.arg.stream = <<>>
    /\ last.arg.scan = ErrTimeout
    /\ last.err = ErrWouldBlock
    /\ last.n = 0
    /\ recvBufLengths[1] = 0
    /\ recvBufLengths[0] > 0

\* C18: connectionRead(id, dst) with k > 0 bytes buffered returns
\* n = min(len(dst), k) and the first n buffered bytes, leaves the other k - n
\* bytes buffered in their order, and does not touch the device: no scan, no
\* byte read from or written to the transport, the other buffers and the table
\* unchanged.
C18_ReadTakesFromTheFront ==
    [][last'.op = "connectionRead" /\ recvBufLengths[last'.cid] > 0 =>
          LET id == last'.cid
              k == recvBufLengths[id]
              n == Min(last'.arg.dst, k)
              before == Buffered(recvBuffers, recvBufLengths, id)
          IN  /\ IsNil(last'.err)
              /\ last'.n = n
              /\ last'.arg.out = SubSeq(before, 1, n)
              /\ recvBufLengths'[id] = k - n
              /\ Buffered(recvBuffers', recvBufLengths', id) = SubSeq(before, n + 1, k)
              /\ last'.arg.out \o Buffered(recvBuffers', recvBufLengths', id) = before
              /\ last'.arg.scan.kind = "none"
              /\ last'.tx = <<>>
              /\ rx' = rx \o last'.arg.stream
              /\ buffer' = buffer /\ end' = end
              /\ OthersKeep({id})
              /\ connections' = connections]_vars

\* Of six bytes buffered for connection 0 a read into three bytes has taken
\* the first three; the other three are at the front of the buffer
C18_Witness ==
    /\ last.op = "connectionRead"
    /\ last.cid = 0
    /\ last.arg.dst = 3
    /\ last.arg.scan.kind = "none"
    /\ last.n = 3
    /\ last.arg.out = SubSeq(PayFraming, 1, 3)
    /\ Buffered(recvBuffers, recvBufLengths, 0) = SubSeq(PayFraming, 4, 6)

----------------------------------------------------------------------------
(* SpecCmd: send with the default acceptance rule, every kind of final result *)
(* code, with echo off and on                                                 *)

\* The final line OK: alone, after empty lines, after the command echo
OkReplies ==
    {Reply(Str_OK \o crlf), OkLine, Reply(crlf \o OkLine.bytes), EchoOk}

Str_CME == <<"+", "C", "M", "E", " ">> \o Str_ERROR \o <<":", " ", "1", "0">>
Str_CMS == <<"+", "C", "M", "S", " ">> \o Str_ERROR \o <<":", " ", "5", "0", "0">>
\* The final line ERROR or a keyed error: alone, after an empty line
ErrorReplies ==
    {Reply(lead \o e \o crlf) : lead \in {<<>>, crlf}, e \in {Str_ERROR, Str_CME, Str_CMS}}

\* A line that holds neither marker
Str_CGATT == <<"+", "C", "G", "A", "T", "T", ":", " ", "0">>
OtherReplies == {RingLine, Reply(Str_CGATT \o crlf), Reply(crlf \o Str_CGATT \o crlf)}

\* The data prompt in place of the answer line: alone, after an empty line,
\* followed by a line
PromptReplies == {Reply(<<">">>), PromptReply, Reply(<<">", " ">> \o OkLine.bytes)}

SentCommands ==
    {cmdGprsAttachQuery, cmdGprsAttach, cmdMultiConn, cmdStartWireless, cmdShutPdp,
     cmdGprsDetach}

CmdInputs ==
    {[cmd |-> c, reply |-> r] :
        c \in SentCommands,
        r \in OkReplies \cup ErrorReplies \cup OtherReplies \cup PromptReplies
                \cup {Silence, WriteFails}}

NextCmd ==
    \/ DoSend(CmdInputs)
    \/ DeviceSends({RingLine, ErrorLine})

SpecCmd == Init /\ [][NextCmd]_vars

\* C19: send (default acceptance rule) returns success when the device
\* answers with the line OK, possibly after empty lines; an ATError when it
\* answers ERROR, +CME ERROR:<code> or +CMS ERROR:<code>; an
\* unexpected-response error when the answer line holds neither marker.
C19_DefaultRuleClassifiesReply ==
    last.op = "send" =>
        /\ last.arg.reply \in OkReplies => IsNil(last.err)
        /\ last.arg.reply \in ErrorReplies => last.err.kind = "ATError"
        /\ last.arg.reply \in OtherReplies => last.err.kind = "unexpected response"

\* +CIPMUX=1 was sent, the device answered CRLF OK CRLF, and send has timed out
C19_Witness ==
    /\ last.op = "send"
    /\ last.arg.cmd = cmdMultiConn
    /\ last.arg.reply = OkLine
    /\ last.err = ErrTimeout
    /\ Len(last.tx) = 1

\* C20: the ATError that send returns when the device reports ERROR,
\* +CME ERROR or +CMS ERROR carries the text of the command that was sent, not
\* the text of the device's reply.
C20_ErrorCarriesTheCommand ==
    last.op = "send" /\ last.arg.reply \in ErrorReplies =>
        /\ last.err.kind = "ATError"
        /\ last.err.text \in {last.arg.cmd, at \o last.arg.cmd}

\* +CIPMUX=1 was sent, the device answered ERROR, and the ATError returned
\* carries the reply line
C20_Witness ==
    /\ last.op = "send"
    /\ last.arg.cmd = cmdMultiConn
    /\ last.arg.reply = ErrorLine
    /\ last.err = ATError(Str_ERROR)
    /\ last.tx[1].bytes = at \o cmdMultiConn \o crlf

\* C21: when the framer yields a Prompt unit while send waits for the
\* response line of a command, send returns the unexpected-response error: not
\* an ATError and not success.
C21_PromptForLineIsUnexpected ==
    last.op = "send" /\ last.arg.reply \in PromptReplies =>
        last.err.kind \in {"ErrUnexpectedResponse", "unexpected response"}

\* +CIPMUX=1 was sent, the device answered with the prompt, and send returned
\* an ATError that names the command
C21_Witness ==
    /\ last.op = "send"
    /\ last.arg.cmd = cmdMultiConn
    /\ last.arg.reply = PromptReply
    /\ last.err = ATError(cmdMultiConn)
    /\ Len(last.tx) = 1
    /\ rx = <<" ">>

----------------------------------------------------------------------------
(* The command lines on the wire, checked under Spec *)

\* The line the dispatcher is to write for the command cmd
WireForm(cmd) ==
    LET body == toUpperNoCopy(cmd)
    IN  (IF HasPrefix(body, at) THEN body ELSE at \o body) \o crlf

\* The command Dial assembles for the slot cid (gprs.go:197-199)
OpenCmd(cid, network, address) ==
    LET q == <<"\"">>
        hp == SplitHostPort(address)
    IN  cmdClipStart \o <<"=">> \o Itoa(cid) \o <<",">>
        \o q \o NetworkType(ParseNetwork(network)) \o q \o <<",">>
        \o q \o hp.host \o q \o <<",">> \o q \o hp.port \o q

\* The command each step of Connect hands to send
ConnectCmd(step, user, password) ==
    CASE step = "query"  -> cmdGprsAttachQuery
      [] step = "attach" -> cmdGprsAttach
      [] step = "mux"    -> cmdMultiConn
      [] step = "cstt"   -> CsttCmd(Apn, user, password)
      [] step = "ciicr"  -> cmdStartWireless
      [] step = "cifsr"  -> cmdGetIp

\* C22: for every command the dispatcher accepts, the bytes written are the
\* prefix AT (only when the command does not start with it), the upper-cased
\* command and CRLF, also for the commands assembled in the scratch buffer
\* (+CSTT, +CIPSTART, +CIPCLOSE, +CIPSEND), and each command is written once.
C22_CommandsFramedOnTheWire ==
    [][LET tx == last'.tx
       IN  /\ last'.op = "Connect" =>
                /\ \A k \in 1 .. Len(tx) :
                       tx[k].bytes = WireForm(ConnectCmd(tx[k].step, last'.arg.user,
                                                         last'.arg.password))
                /\ \A j, k \in 1 .. Len(tx) : j < k => tx[j].step # tx[k].step
           /\ last'.op = "Dial" /\ tx # <<>> =>
                /\ tx[1].bytes = WireForm(OpenCmd(FindFreeSlot(connections),
                                                  last'.arg.network, last'.arg.address))
                /\ Len(tx) = 1
           /\ last'.op = "CloseConnection" /\ tx # <<>> =>
                /\ tx[1].bytes = WireForm(cmdClipClose \o Itoa(last'.cid))
                /\ Len(tx) = 1
           /\ last'.op = "connectionSend" /\ tx # <<>> =>
                tx[1].bytes = WireForm(cmdClipSend \o Itoa(last'.cid) \o <<",">>
                                       \o Itoa(ChunkSize(last'.arg.size, 0)))]_vars

\* Dial("tcp", "h:80") on a device with an address and an empty table: the line
\* written is not AT+CIPSTART=0,"TCP","H","80" CRLF
C22_Witness ==
    /\ last.op = "Dial"
    /\ last.arg.address = H80
    /\ last.cid = 0
    /\ IsNil(last.err)
    /\ Len(last.tx) = 1
    /\ last.tx[1].bytes # WireForm(OpenCmd(0, "tcp", H80))
    /\ HasPrefix(last.tx[1].bytes, at \o at)

\* The device as the running operation would find it with nothing pending
Drained == [Self EXCEPT !.rx = <<>>]

\* What an operation that sends commands leaves to be seen: the error, the
\* lines written, the table, the address
SendOutcome(r) ==
    [err |-> r.err, tx |-> r.d.tx, connections |-> r.d.connections, IP |-> r.d.IP]

\* C32: the bytes pending when a command send begins are dropped before the
\* command is written and play no part in the operation: its outcome is the
\* one it has with nothing pending.
C32_StaleBytesPlayNoPart ==
    [][LET seen == [err |-> last'.err, tx |-> last'.tx, connections |-> connections',
                    IP |-> IP']
       IN  /\ last'.op = "Dial" =>
                seen = SendOutcome(Dial(Drained, last'.arg.network, last'.arg.address,
                                        last'.arg.reply))
           /\ last'.op = "CloseConnection" =>
                seen = SendOutcome(CloseConnection(Drained, last'.cid, last'.arg.reply))
           /\ last'.op = "Connect" =>
                seen = SendOutcome(Connect(Drained, Apn, last'.arg.user, last'.arg.password,
                                           last'.arg.script))
           /\ last'.op = "Disconnect" =>
                seen = SendOutcome(Disconnect(Drained, last'.arg.script))]_vars

\* An unsolicited RING was pending when Dial began: its bytes have gone out
\* to the device inside the command line
C32_Witness ==
    /\ last.op = "Dial"
    /\ IsNil(last.err)
    /\ Len(last.tx) = 1
    /\ Contains(last.tx[1].bytes, <<"R", "I", "N", "G">>)

----------------------------------------------------------------------------
(* SpecLex: a Lexer fed with response streams cut at every byte boundary,   *)
(* through Tokenize and through Append and Process                          *)

Str_COPS == <<"+", "C", "O", "P", "S", ":", " ", "0", ",", "0", ",", "\"", "2", "8", ",", "4", "0", "3", "\"">>
Str_CGATT1 == <<"+", "C", "G", "A", "T", "T", ":", " ", "1">>

\* A notification with MaxValues + 1 fields, one of them empty
Str_CLIP == <<"+", "C", "L", "I", "P", ":", " ", "1", ",", ",", "3", ",", "4", ",", "5", ",", "6", ",", "7", ",", "8", ",", "9">>

LexStreams ==
    {Str_CGATT1 \o crlf \o Str_OK \o crlf,
     Str_COPS \o crlf \o Str_OK \o crlf,
     crlf \o <<">", " ">> \o crlf \o Str_ERROR \o crlf,
     Str_CLIP \o crlf}

NextLex ==
    \/ DoTokenize(LexStreams)
    \/ DoAppend(LexStreams)
    \/ DoProcess
    \/ DoReset

SpecLex == Init /\ [][NextLex]_vars

\* C23: feeding a byte sequence to the lexer in one call and feeding it cut at
\* arbitrary byte boundaries over successive calls (Tokenize, or Append and
\* Process) give the same token sequence once the calls' results are
\* concatenated, and the same incomplete fragment is retained.
C23_StreamingEquivalence ==
    last.op \in {"Tokenize", "Process"} =>
        /\ last.arg.out = Tokenize(NewLexer, last.arg.fed).tokens
        /\ lexer.buffer = Tokenize(NewLexer, last.arg.fed).buffer

\* +CGATT: 1 CRLF OK CRLF was fed in more than one call and gave the tokens of
\* its two lines, which a single Tokenize call does not give
C23_Witness ==
    /\ last.op \in {"Tokenize", "Process"}
    /\ last.arg.fed = Str_CGATT1 \o crlf \o Str_OK \o crlf
    /\ last.arg.out = <<parseLine(Str_CGATT1), parseLine(Str_OK)>>
    /\ last.arg.out # Tokenize(NewLexer, last.arg.fed).tokens
    /\ lexer.buffer = <<>>

\* The commas of v outside a pair of double quotes, and the k-th of them
Separators(v) ==
    {i \in 1 .. Len(v) :
        v[i] = "," /\ Cardinality({j \in 1 .. (i - 1) : v[j] = "\""}) % 2 = 0}
Separator(v, k) ==
    IF k = 0 THEN 0
    ELSE IF k > Cardinality(Separators(v)) THEN Len(v) + 1
    ELSE CHOOSE i \in Separators(v) : Cardinality({j \in Separators(v) : j < i}) = k - 1

\* The fields of v between its separators; an empty field after the last
\* separator does not count
Fields(v) ==
    LET n == Cardinality(Separators(v))
        all == [k \in 1 .. (n + 1) |-> SubSeq(v, Separator(v, k - 1) + 1, Separator(v, k) - 1)]
    IN  IF all[n + 1] = <<>> THEN SubSeq(all, 1, n) ELSE all

----------------------------------------------------------------------------
(* SpecHandle: the caller dials, reads, writes and closes through the       *)
(* connection handles, and goes on using the handles it has closed          *)

MaxLive == 2   \* the caller dials only while fewer connections than this are open

HandleDials ==
    IF Cardinality({i \in Slots : connections[i] # NoConn}) < MaxLive
    THEN {<<"tcp", H80, ConnectOkEcho>>, <<"tcp", H80, ConnectFail>>}
    ELSE {}

HandleReads ==
    {[dst |-> n, stream |-> s, piece |-> MaxBufferSize] :
        n \in {0, 3}, s \in {<<>>, Notification(0, Pay4)}}

HandleWrites ==
    {[size |-> 0, script |-> AllChunksOk], [size |-> SmallPayload, script |-> AllChunksOk],
     [size |-> SmallPayload, script |-> SendScript(1, PromptReply, SendFail)]}

NextHandle ==
    \/ DoConnect({ConnectOk})
    \/ DoDial(HandleDials)
    \/ DoRead(HandleReads)
    \/ DoWrite(HandleWrites)
    \/ DoClose({CloseOk, ErrorLine})

SpecHandle == Init /\ [][NextHandle]_vars

\* C25: Read on a connection handle whose state is not Connected (a closed
\* connection's handle included) returns io.EOF, and Write on such a handle
\* returns the not-established error; neither writes to the device, consumes
\* its bytes or changes any state.
C25_UnconnectedHandleRefused ==
    [][last'.op \in {"Read", "Write"} /\ last'.arg.handle # NoConn
       /\ last'.arg.handle.state # StateConnected =>
           /\ last'.op = "Read" => last'.err = ErrEOF
           /\ last'.op = "Write" => last'.err = ErrConnectionNotEstablished
           /\ last'.n = 0
           /\ last'.tx = <<>>
           /\ \E arrived \in {<<>>} \cup {in.stream : in \in HandleReads} : rx' = rx \o arrived
           /\ UNCHANGED <<connections, IP, buffer, end, recvBuffers, recvBufLengths, handles>>]_vars

\* The handle of connection 0 has been closed, slot 0 has been dialled again
\* and holds buffered bytes, and a Read on the closed handle has returned io.EOF
C25_Witness ==
    /\ last.op = "Read"
    /\ last.arg.handle \in handles
    /\ last.arg.handle.ID = 0
    /\ last.arg.handle.state = StateClosing
    /\ connections[0] # NoConn
    /\ recvBufLengths[0] > 0
    /\ last.err = ErrEOF

----------------------------------------------------------------------------
(* SpecAttach: Connect on a device that answers the attach query with its    *)
(* status line and the result code, attached or not, with echo off and on   *)

\* The answers to +CGATT? of an attached device
AttachedOk == Reply(crlf \o Str_CGATT1 \o crlf \o crlf \o Str_OK \o crlf)
AttachedEcho == Reply(Echo(cmdGprsAttachQuery) \o AttachedOk.bytes)

ReportsAttached(reply) == ~reply.werr /\ Contains(reply.bytes, Str_CGATT1)

AttachQueryReplies ==
    {AttachedOk, AttachedEcho, NotAttachedOk, NotAttachedEcho, EchoOk, AttachedLine}

AttachInputs ==
    {<<cred, [ConnectScript(q, IpLf) EXCEPT !.attach = a]>> :
        cred \in {NoCredentials, UserPassword}, q \in AttachQueryReplies,
        a \in {EchoOk, ErrorLine}}

NextAttach ==
    \/ DoConnect(AttachInputs)
    \/ DoDial({<<"tcp", H80, ConnectOkEcho>>})
    \/ DeviceSends({RingLine})

SpecAttach == Init /\ [][NextAttach]_vars

\* C26: Connect transmits the attach command exactly when the reply to the
\* attach query does not report attached: answered with +CGATT: 1 it sends no
\* attach command and goes on to enable multi-connection mode.
C26_AttachOnlyWhenNotAttached ==
    last.op = "Connect" =>
        /\ ("attach" \in {last.tx[k].step : k \in 1 .. Len(last.tx)})
               <=> ~ReportsAttached(last.arg.script.query)
        /\ ReportsAttached(last.arg.script.query) =>
               Len(last.tx) >= 2 /\ last.tx[2].step = "mux"

\* The attach query was answered with +CGATT: 1 and OK, and Connect has given
\* up on the query without sending another command
C26_Witness ==
    /\ last.op = "Connect"
    /\ last.arg.script.query = AttachedOk
    /\ Steps(last.tx) = <<"query">>
    /\ last.err.kind = "unexpected response"
    /\ last.err.wrap = <<"failed to check GPRS attachment">>

----------------------------------------------------------------------------
(* SpecFrame: successive readLine calls on what the device sends: streams of *)
(* CRLF-terminated lines, prompts, and CRs that no LF follows                *)

Str_RING == <<"R", "I", "N", "G">>

\* A byte the framer gives no meaning to
IsOrdinary(b) == b \notin {CR, LF, ">"}
AllOrdinary(s) == \A i \in 1 .. Len(s) : IsOrdinary(s[i])

\* The lines of the line streams, and the streams of up to MaxLines of them
MaxLines == 3
FrameLines == {<<>>, Str_OK, Str_RING, Str_ERROR, Str_CGATT1}
LineSeqs == UNION {[1 .. n -> FrameLines] : n \in 0 .. MaxLines}

RECURSIVE LineStream(_)
LineStream(ls) == IF ls = <<>> THEN <<>> ELSE Head(ls) \o crlf \o LineStream(Tail(ls))

RECURSIVE DropEmpty(_)
DropEmpty(ls) == IF ls # <<>> /\ Head(ls) = <<>> THEN DropEmpty(Tail(ls)) ELSE ls

\* Streams with a prompt: alone, as the device sends it, after content
PromptStreams ==
    {<<">">>, crlf \o <<">", " ">>, crlf \o crlf \o <<">", " ">>,
     <<"a", "b", ">", "c">> \o crlf, crlf \o <<"a", ">", ">">>}

\* Streams with a CR that no LF follows: before an ordinary byte, a CR, a prompt
LoneCrStreams ==
    {<<"A", "B", CR, "C", "D">> \o crlf,
     <<"A", "T", CR>> \o crlf \o Str_OK \o crlf,
     <<"A", "B", CR, ">", "C", "D">> \o crlf,
     <<CR, "x", "y", "z">> \o crlf}

FrameStreams ==
    {LineStream(ls) : ls \in LineSeqs} \cup PromptStreams \cup LoneCrStreams

NextFrame ==
    \/ DoReadLine(FrameStreams)
    \/ DeviceSends({RingLine})

SpecFrame == Init /\ [][NextFrame]_vars

\* C27: on a stream of CRLF-terminated lines a readLine call skips the lines
\* without content and returns a Line unit for the first line with content,
\* carrying exactly that line's bytes and leaving the lines after it pending,
\* so that successive calls return the non-empty lines one by one, in order.
C27_OneLinePerNonEmptyLine ==
    last.op = "readLine" =>
        \A ls \in LineSeqs :
            last.arg.stream = LineStream(ls) /\ DropEmpty(ls) # <<>> =>
                /\ last.arg.tok = TokenLine
                /\ IsNil(last.err)
                /\ buffer = Head(DropEmpty(ls))
                /\ rx = LineStream(Tail(DropEmpty(ls)))

\* The lines OK and RING were pending; one call has consumed both and returned
\* a single Line unit with the bytes of both
C27_Witness ==
    /\ last.op = "readLine"
    /\ last.arg.stream = LineStream(<<Str_OK, Str_RING>>)
    /\ last.arg.tok = TokenLine
    /\ buffer = Str_OK \o Str_RING
    /\ rx = <<>>

\* What may come before a prompt and leave the scanner in stateStart with
\* nothing skipped: empty lines
PromptPrefixes == {<<>>, crlf, crlf \o crlf}

\* C28: when readLine reads '>' in stateStart it returns a Prompt unit at once:
\* the scratch buffer holds the bytes read before the '>' and not the '>', and
\* every byte behind the '>' is still pending.
C28_PromptReturnedAtOnce ==
    last.op = "readLine" =>
        \A p \in 1 .. Len(last.arg.stream), pre \in PromptPrefixes :
            /\ last.arg.stream[p] = ">"
            /\ HasPrefix(SubSeq(last.arg.stream, 1, p - 1), pre)
            /\ AllOrdinary(SubSeq(last.arg.stream, Len(pre) + 1, p - 1))
            /\ p - 1 - Len(pre) <= MaxBufferSize
            => /\ last.arg.tok = TokenPrompt
               /\ IsNil(last.err)
               /\ buffer = SubSeq(last.arg.stream, Len(pre) + 1, p - 1)
               /\ end = Len(buffer)
               /\ rx = SubSeq(last.arg.stream, p + 1, Len(last.arg.stream))

\* The bytes ab>c and a line end were pending: the call has returned a Prompt
\* unit with ab in the scratch buffer and c and the line end still pending
C28_Witness ==
    /\ last.op = "readLine"
    /\ last.arg.stream = <<"a", "b", ">", "c">> \o crlf
    /\ last.arg.tok = TokenPrompt
    /\ buffer = <<"a", "b">>
    /\ rx = <<"c">> \o crlf

\* The result of a readLine call as the caller sees it
FrameResult(r) ==
    [tok |-> r.tok, err |-> r.err, line |-> SubSeq(r.buffer, 1, r.end), rx |-> r.rx]

\* C29: a CR that a byte b other than LF follows ends no line: the CR and what
\* was read before it are dropped and the call goes on as a call that finds b
\* as the first byte of a fresh line in stateStart: after CR b = CR waits for
\* the LF, b = '>' gives a Prompt unit, any other b is the line's first byte.
C29_LoneCrRestartsTheLine ==
    last.op = "readLine" =>
        \A p \in 1 .. (Len(last.arg.stream) - 1) :
            /\ AllOrdinary(SubSeq(last.arg.stream, 1, p - 1))
            /\ last.arg.stream[p] = CR
            /\ last.arg.stream[p + 1] # LF
            => [tok |-> last.arg.tok, err |-> last.err, line |-> buffer, rx |-> rx]
                   = FrameResult(readLine(<<>>, SubSeq(last.arg.stream, p + 1,
                                                       Len(last.arg.stream))))

\* The bytes AB, a CR, and the line >CD were pending: the call has returned a
\* Line unit whose content starts with the '>'
C29_Witness ==
    /\ last.op = "readLine"
    /\ last.arg.stream = <<"A", "B", CR, ">", "C", "D">> \o crlf
    /\ last.arg.tok = TokenLine
    /\ buffer = <<">", "C", "D">>
    /\ rx = <<>>

----------------------------------------------------------------------------
(* SpecMem: the fixed buffers at their limits: response lines, commands and  *)
(* announced payloads just within and just beyond the capacities             *)

\* n ordinary bytes
Filler(n) == [i \in 1 .. n |-> "x"]

MemStreams ==
    {<<>>, Str_RING \o crlf, Filler(MaxBufferSize) \o crlf,
     Filler(MaxBufferSize + 1) \o crlf, crlf \o Filler(MaxBufferSize + 2)}

MemCommands ==
    {[cmd |-> c, reply |-> r] :
        c \in {cmdMultiConn, Filler(MaxCommandSize), Filler(MaxCommandSize + 1),
               at \o Filler(MaxBufferSize)},
        r \in {EchoOk, ErrorLine}}

MemNotifications ==
    {[stream |-> Notification(id, Payload(n)), piece |-> MaxBufferSize] :
        id \in {0, MaxConnections - 1},
        n \in {SmallPayload, MaxBufferSize, MaxBufferSize + 1, RecvBufSize, RecvBufSize + 1}}

NextMem ==
    \/ DoReadLine(MemStreams)
    \/ DoSend(MemCommands)
    \/ DoCheckForReceivedData(MemNotifications)

SpecMem == Init /\ [][NextMem]_vars

\* C30: the scratch index stays within 0 .. 256 and every connection's
\* buffered length within 0 .. 1024; a response line with more content than the
\* scratch buffer holds ends the readLine call with the buffer-overflow error,
\* the buffer full and nothing written beyond it; a command longer than
\* MaxCommandSize is refused with nothing written to the uart.
C30_FixedMemory ==
    /\ end \in 0 .. MaxBufferSize
    /\ Len(buffer) = end
    /\ \A i \in Slots :
           recvBufLengths[i] \in 0 .. RecvBufSize /\ Len(recvBuffers[i]) = recvBufLengths[i]
    /\ last.op = "readLine" =>
           \A pre \in PromptPrefixes :
               /\ HasPrefix(last.arg.stream, pre)
               /\ Len(last.arg.stream) > Len(pre) + MaxBufferSize
               /\ AllOrdinary(SubSeq(last.arg.stream, Len(pre) + 1,
                                      Len(pre) + MaxBufferSize + 1))
               => /\ last.arg.tok = TokenInvalid
                  /\ last.err = Error("buffer overflow", <<>>)
                  /\ end = MaxBufferSize
                  /\ buffer = SubSeq(last.arg.stream, Len(pre) + 1, Len(pre) + MaxBufferSize)
    /\ last.op = "send" /\ Len(last.arg.cmd) > MaxCommandSize =>
           /\ last.err = Error("command too long", <<>>)
           /\ last.tx = <<>>

\* A line of 257 bytes was pending while connection 0 held a payload of 256
\* bytes: readLine has stopped with the buffer-overflow error, the scratch
\* buffer full
C30_Witness ==
    /\ last.op = "readLine"
    /\ last.arg.stream = Filler(MaxBufferSize + 1) \o crlf
    /\ last.err.kind = "buffer overflow"
    /\ end = MaxBufferSize
    /\ recvBufLengths[0] = MaxBufferSize

----------------------------------------------------------------------------
(* SpecWait: the waits step by step.  The program keeps running and the     *)
(* clock keeps ticking (weak fairness); the device answers every command   *)
(* and sends what it likes beside that, MaxEmit times before it stops.     *)

WaitReplies == {Silence, EchoOk, PromptReply, WriteFails}
WaitChunks == {RingLine.bytes, ReceiveLine(<<"1">>, <<"4">>) \o <<"a", "b">>}

NextWait ==
    \/ BeginWait({"readLine", "checkForReceivedData"})
    \/ BeginSend({"send", "connectionSend"}, {cmdMultiConn})
    \/ WaitSteps(WaitReplies)
    \/ Tick
    \/ DeviceEmits(WaitChunks)

SpecWait ==
    /\ Init
    /\ [][NextWait]_vars
    /\ WF_vars(WaitSteps(WaitReplies))
    /\ WF_vars(Tick)

\* C31: every wait ends: with no complete unit arriving readLine returns
\* ErrTimeout once its deadline has passed and not before, and every send,
\* every wait for the prompt and every scan for received data returns.
C31_EveryWaitReturns ==
    /\ (wait.pc # "idle") ~> (wait.pc = "idle")
    /\ [](wait.pc = "idle" /\ last.err.kind = "ErrTimeout" =>
             wait.left = 0 \/ (wait.caller = "checkForReceivedData" /\ wait.outer = 0))

\* A scan for received data has read a preamble and half of the payload it
\* announces, and has returned ErrTimeout at its deadline
C31_Witness ==
    /\ wait.pc = "idle"
    /\ wait.caller = "checkForReceivedData"
    /\ wait.dataLength = 2
    /\ wait.outer = 0
    /\ recvBufLengths[1] = 2
    /\ last.err = ErrTimeout

----------------------------------------------------------------------------
(* SpecSeek: checkForReceivedData on streams in which other lines come      *)
(* before the notification                                                  *)

Str_CMTI == <<"+", "C", "M", "T", "I", ":", " ", "1">>

\* A line as the device sends it
Framed(line) == crlf \o line \o crlf

\* What may come before the preamble: nothing, empty lines, one or two lines
\* that are no preamble
SeekLines == {Str_RING, Str_CGATT1, Str_CMTI}
SeekPrefixes ==
    {<<>>, crlf \o crlf}
    \cup {Framed(l) : l \in SeekLines}
    \cup {Framed(Str_RING) \o Framed(l) : l \in SeekLines}

SeekCases ==
    {[id |-> id, payload |-> p, first |-> pre, stream |-> pre \o Notification(id, p)] :
        id \in {0, 1}, p \in {Pay4, Payload(SmallPayload)}, pre \in SeekPrefixes}

SeekInputs == {[stream |-> c.stream, piece |-> MaxBufferSize] : c \in SeekCases}

NextSeek ==
    \/ DoConnect({ConnectOk})
    \/ DoDial({<<"tcp", H80, ConnectOkEcho>>})
    \/ DoCheckForReceivedData(SeekInputs)

SpecSeek == Init /\ [][NextSeek]_vars

\* C33: a line that is no +RECEIVE preamble does not end the scan:
\* checkForReceivedData reads on to the preamble, so the payload of a
\* notification that follows other lines is buffered for its connection.
C33_ScanReadsOnToThePreamble ==
    last.op = "checkForReceivedData" =>
        \A c \in SeekCases :
            last.arg.stream = c.stream /\ connections[c.id] # NoConn =>
                /\ IsNil(last.err)
                /\ recvBufLengths[c.id] = Len(c.payload)
                /\ recvBuffers[c.id] = c.payload

\* RING and then a notification of four bytes for the open connection 0 have
\* arrived: the scan has returned an error at the RING line, nothing is
\* buffered and the notification is still pending
C33_Witness ==
    /\ last.op = "checkForReceivedData"
    /\ last.arg.stream = Framed(Str_RING) \o Notification(0, Pay4)
    /\ connections[0] # NoConn
    /\ last.err.kind = "invalid +RECEIVE format"
    /\ recvBufLengths[0] = 0
    /\ rx = Notification(0, Pay4)

----------------------------------------------------------------------------
(* SpecToken: a fresh Lexer given one or two response lines through         *)
(* Tokenize, cut at every byte boundary                                     *)

Str_CREG == <<"+", "C", "R", "E", "G", ":", " ", "1", ",", "5">>
Str_CMT == <<"+", "C", "M", "T", ":", " ", "a", ":", "b">>
Str_ATE0 == <<"A", "T", "E", "0">>
Str_ATKey == <<"A", "T", "+", "X", ":", " ", "1">>
Str_OKKey == <<"O", "K", ":", "1">>

\* One line for every rule of the classification, and lines that more than
\* one rule would match
TokenLines ==
    {Str_OK, Str_ERROR, Str_CME, Str_CMS, <<">">>, Str_CGATT1, Str_CREG, Str_CMT,
     Str_ATKey, Str_OKKey, Str_ATE0, Str_RING, Str_CONNECT}

\* A line alone, and a line with a final result line after it
TokenCases ==
    {[lines |-> <<l>>, stream |-> l \o crlf] : l \in TokenLines}
    \cup {[lines |-> <<l, r>>, stream |-> l \o crlf \o r \o crlf] :
              l \in {Str_CGATT1, Str_CREG, Str_ATE0, Str_RING}, r \in {Str_OK, Str_ERROR}}

NextToken ==
    \/ DoTokenize({c.stream : c \in TokenCases})
    \/ DoReset

SpecToken == Init /\ [][NextToken]_vars

\* The type, key and value of the token of a line, by the first rule that
\* the line matches
FirstRule(line) ==
    IF line = Str_OK THEN [Type |-> TokenOK, Command |-> <<>>, Value |-> <<>>]
    ELSE IF line = Str_ERROR THEN [Type |-> TokenError, Command |-> <<>>, Value |-> <<>>]
    ELSE IF HasPrefix(line, cmeErrorPrefix)
    THEN [Type |-> TokenCME, Command |-> <<>>,
          Value |-> TrimSpace(SubSeq(line, Len(cmeErrorPrefix) + 1, Len(line)))]
    ELSE IF HasPrefix(line, cmsErrorPrefix)
    THEN [Type |-> TokenCMS, Command |-> <<>>,
          Value |-> TrimSpace(SubSeq(line, Len(cmsErrorPrefix) + 1, Len(line)))]
    ELSE IF line = <<">">> THEN [Type |-> TokenPrompt, Command |-> <<>>, Value |-> <<>>]
    ELSE IF \E i \in 1 .. Len(line) : line[i] = ":"
    THEN LET colon == CHOOSE i \in 1 .. Len(line) :
                          line[i] = ":" /\ \A j \in 1 .. (i - 1) : line[j] # ":"
             key == SubSeq(line, 1, colon - 1)
         IN  [Type |-> IF key \in urcs THEN TokenURC ELSE TokenResponse,
              Command |-> key,
              Value |-> TrimSpace(SubSeq(line, colon + 1, Len(line)))]
    ELSE IF HasPrefix(line, at) THEN [Type |-> TokenCommand, Command |-> line, Value |-> <<>>]
    ELSE [Type |-> TokenData, Command |-> <<>>, Value |-> <<>>]

\* The tokens of the non-empty lines among tokens, as type, key and value
RECURSIVE OfLines(_)
OfLines(tokens) ==
    IF tokens = <<>> THEN <<>>
    ELSE IF Head(tokens).Type = TokenEmpty THEN OfLines(Tail(tokens))
    ELSE <<[Type |-> Head(tokens).Type, Command |-> Head(tokens).Command,
            Value |-> Head(tokens).Value]>> \o OfLines(Tail(tokens))

\* C34: the lexer makes exactly one token of each non-empty line, by the
\* first rule that matches: OK, ERROR, +CME ERROR: / +CMS ERROR: with the
\* trimmed code as value, the prompt, a line with a colon as key and trimmed
\* value (a notification when the key is in the roster, else a response), a
\* line that starts with AT as command echo, anything else as data.
C34_OneTokenPerLineByFirstRule ==
    last.op = "Tokenize" =>
        \A c \in TokenCases :
            last.arg.fed = c.stream =>
                OfLines(last.arg.out) = [k \in 1 .. Len(c.lines) |-> FirstRule(c.lines[k])]

\* +CGATT: 1 and OK have been given in one call: the first token has the key
\* OK CR LF TT, made of the bytes of the second line moved over the first
C34_Witness ==
    /\ last.op = "Tokenize"
    /\ last.arg.fed = Str_CGATT1 \o crlf \o Str_OK \o crlf
    /\ Len(last.arg.out) = 2
    /\ last.arg.out[1].Type = TokenResponse
    /\ last.arg.out[1].Command = <<"O", "K", CR, LF, "T", "T">>
    /\ last.arg.out[2].Type = TokenOK

----------------------------------------------------------------------------
(* The records of the connection table between operations, checked under Spec *)

\* C35: between operations every occupied slot i holds a record with ID i in
\* the state Connected: no record in the state Connecting or Closing is left
\* in the table when Dial, CloseConnection or Disconnect has returned.
C35_OccupiedSlotsAreConnected ==
    \A i \in Slots :
        connections[i] # NoConn =>
            connections[i].ID = i /\ connections[i].state = StateConnected

\* The close of slot 0 has failed on ERROR and a Dial has failed on CONNECT
\* FAIL or the like, the one after the other, with a connection live in slot 1
C35_Witness ==
    /\ last.op \in {"CloseConnection", "Dial"}
    /\ Failed(last.err)
    /\ last.tx # <<>>
    /\ connections[0] = NoConn
    /\ connections[1] # NoConn
    /\ connections[1].state = StateConnected

----------------------------------------------------------------------------
(* The receive buffer of a slot that is dialled again, checked under        *)
(* SpecHandle                                                               *)

\* C36: the connection that Dial returns starts with an empty receive
\* buffer: a Read on it never returns bytes that an earlier connection of
\* the same slot left unread.
C36_DialStartsWithEmptyBuffer ==
    /\ [](last.op = "Dial" /\ IsNil(last.err) => recvBufLengths[last.cid] = 0)
    /\ [][last.op = "Dial" /\ IsNil(last.err) /\ rx = <<>>
            /\ last'.op = "Read" /\ last'.cid = last.cid /\ last'.arg.stream = <<>>
            => last'.n = 0]_vars

\* Connection 0 was closed with the byte d of its payload unread, and the
\* Dial that took slot 0 again has returned: the byte is in the buffer of
\* the new connection
C36_Witness ==
    /\ last.op = "Dial"
    /\ IsNil(last.err)
    /\ last.cid = 0
    /\ \E h \in handles : h.ID = 0 /\ h.state = StateClosing
    /\ recvBufLengths[0] = 1
    /\ recvBuffers[0] = <<"d">>

----------------------------------------------------------------------------
(* Close on the handle of a connection that is closed already, checked      *)
(* under SpecHandle                                                         *)

\* C37: Close on a stale handle never closes another, live connection: when
\* the slot of the handle has been taken by a later Dial, that connection
\* stays in its slot, Connected, and no close command is written.
C37_StaleCloseSparesTheSlot ==
    [][last'.op = "Close" /\ last'.arg.handle # NoConn
       /\ last'.arg.handle.state # StateConnected =>
           /\ connections' = connections
           /\ last'.tx = <<>>]_vars

\* Close on the closed handle of an earlier connection 0 has written
\* +CIPCLOSE=0 and emptied slot 0, which a later Dial had taken
C37_Witness ==
    /\ last.op = "Close"
    /\ last.arg.handle # NoConn
    /\ last.arg.handle.ID = 0
    /\ last.arg.handle.state = StateClosing
    /\ IsNil(last.err)
    /\ "close" \in {last.tx[k].step : k \in 1 .. Len(last.tx)}
    /\ connections[0] = NoConn

----------------------------------------------------------------------------
(* SpecDrain: checkForReceivedData on a notification with further bytes     *)
(* behind its payload, the UART handing over one byte or all it has         *)

\* What follows the payload: nothing, a response line, the notification of
\* another connection
DrainTails == {<<>>, Framed(Str_OK), Notification(1, Pay4)}

DrainCases ==
    {[id |-> 0, payload |-> p, tail |-> t, stream |-> Notification(0, p) \o t] :
        p \in {Pay4, Payload(SmallPayload)}, t \in DrainTails}

DrainInputs ==
    {[stream |-> c.stream, piece |-> n] : c \in DrainCases, n \in {1, MaxBufferSize}}

NextDrain ==
    \/ DoConnect({ConnectOk})
    \/ DoDial({<<"tcp", H80, ConnectOkEcho>>})
    \/ DoCheckForReceivedData(DrainInputs)

SpecDrain == Init /\ [][NextDrain]_vars

\* C38: the drain of a +RECEIVE payload of length n takes exactly the n
\* bytes of the payload from the stream: the bytes that follow them are
\* left unread.
C38_DrainTakesThePayloadOnly ==
    last.op = "checkForReceivedData" /\ IsNil(last.err) =>
        \A c \in DrainCases :
            last.arg.stream = c.stream =>
                /\ recvBuffers[c.id] = c.payload
                /\ rx = c.tail

\* The notifications of connections 0 and 1 have arrived together and the
\* scan has returned success: the payload of connection 0 is buffered, the
\* notification of connection 1 has been read with it and is gone
C38_Witness ==
    /\ last.op = "checkForReceivedData"
    /\ IsNil(last.err)
    /\ last.arg.stream = Notification(0, Pay4) \o Notification(1, Pay4)
    /\ last.arg.piece = MaxBufferSize
    /\ recvBuffers[0] = Pay4
    /\ recvBufLengths[1] = 0
    /\ rx = <<>>

----------------------------------------------------------------------------
(* SpecInterleave: notifications that arrive between the operations, with   *)
(* dials, writes and reads in any order                                     *)

\* The notification of four bytes for connection 0, as the device sends it
\* while no operation runs
Incoming == Reply(Notification(0, Pay4))

InterleaveReads == {[dst |-> RecvBufSize, stream |-> <<>>, piece |-> MaxBufferSize]}

NextInterleave ==
    \/ DoConnect({ConnectOk})
    \/ DoDial(HandleDials)
    \/ DeviceSends({Incoming})
    \/ DoRead(InterleaveReads)
    \/ DoWrite({[size |-> SmallPayload, script |-> AllChunksOk]})

SpecInterleave == Init /\ [][NextInterleave]_vars

\* C39: no announced payload is lost when commands and reads interleave
\* with notifications: after any operation the payload of a pending
\* notification of an open connection is still pending, or buffered for the
\* connection, or has been returned by Read.
C39_NoAnnouncedPayloadLost ==
    [][rx = Incoming.bytes /\ connections[0] # NoConn /\ connections'[0] # NoConn =>
          \/ rx' = rx
          \/ recvBuffers'[0] = Pay4
          \/ last'.op = "Read" /\ last'.cid = 0 /\ last'.arg.out \o recvBuffers'[0] = Pay4]_vars

\* A Write on an open connection has drained the pending notification of
\* connection 0 with its payload (its bytes went out over the head of the
\* send command): nothing is pending and nothing is buffered
C39_Witness ==
    /\ last.op = "Write"
    /\ last.tx # <<>>
    /\ Contains(last.tx[1].bytes, <<"E", "C", "E", "I", "V", "E", ",", "0", ",", "4">>)
    /\ last.n = SmallPayload
    /\ connections[0] # NoConn
    /\ rx = <<>>
    /\ recvBufLengths[0] = 0

----------------------------------------------------------------------------
(* SpecAddress: Connect against answers to +CIFSR that hold an address and  *)
(* answers that do not                                                      *)

\* Texts with a dot that are no address: letters, three fields, a field
\* beyond 255, the final result code with a dot
AddressTexts ==
    {DottedQuad, <<"a", ".", "b">>, <<"1", ".", "2", ".", "3">>,
     <<"2", "5", "6", ".", "1", ".", "1", ".", "1">>, Str_ERROR \o <<".">>}

\* The text followed by a lone LF before the CRLF, and on a line of its own
AddressReplies ==
    {Reply(t \o <<LF>> \o crlf) : t \in AddressTexts}
    \cup {Reply(crlf \o t \o crlf) : t \in AddressTexts}
    \cup {Silence, ErrorLine}

AddressInputs ==
    {<<NoCredentials, ConnectScript(q, r)>> : q \in {EchoOk, AttachedLine}, r \in AddressReplies}

NextAddress ==
    \/ DoConnect(AddressInputs)
    \/ DoDial({<<"tcp", H80, ConnectOkEcho>>})

SpecAddress == Init /\ [][NextAddress]_vars

\* Four fields of one to three digits, each at most 255, with dots between
IsDottedQuad(s) ==
    LET f == Split(s, ".")
    IN  /\ Len(f) = 4
        /\ \A k \in 1 .. 4 :
               /\ Len(f[k]) \in 1 .. 3
               /\ \A j \in 1 .. Len(f[k]) : IsDigit(f[k][j])
               /\ DecimalValue(f[k]) <= 255

\* C40: whenever Connect returns success the cached address is non-empty
\* and a syntactically valid dotted quad: a reply that holds no valid
\* address never ends in success with its text cached.
C40_SuccessCachesValidAddress ==
    last.op = "Connect" /\ IsNil(last.err) => IP # <<>> /\ IsDottedQuad(IP)

\* The device has answered +CIFSR with a.b and Connect has returned
\* success with a.b as the cached address
C40_Witness ==
    /\ last.op = "Connect"
    /\ IsNil(last.err)
    /\ Steps(last.tx) = ConnectSteps
    /\ last.arg.script.cifsr = Reply(<<"a", ".", "b", LF>> \o crlf)
    /\ IP = <<"a", ".", "b">>

====
